---- MODULE Spec2Model ----
(***************************************************************************)
(* Bitrate classification engine of VideoBrake (package bitv).             *)
(*                                                                         *)
(* Numbers.  A step size (step_mb) is a Python int or float; it is kept as *)
(* a record [isFloat, halves] whose value is halves/2 megabits, so 0.5 and *)
(* 1.5 are values of the model.  Thresholds and bitrates are in bits per   *)
(* second.                                                                 *)
(*                                                                         *)
(* Text.  A Python str is a sequence of one-character strings, so that     *)
(* str(), zfill() and concatenation are computed, not assumed.  A path is  *)
(* a sequence of components, each component a str in that sense.           *)
(***************************************************************************)
EXTENDS Integers, Sequences, FiniteSets, TLC

VARIABLES
    pc,              \* "new" before VideoAnalyzer(), then "idle" / "scan" / "report"
    bitrate_step,    \* VideoAnalyzer.bitrate_step
    max_steps,       \* VideoAnalyzer.max_steps
    bitrate_levels,  \* VideoAnalyzer.bitrate_levels: dict in insertion order
    lastBitrate,     \* argument of the last get_bitrate_level call
    lastLevel,       \* value returned by the last get_bitrate_level call
    files,           \* file system: absolute path of a regular file -> its content
    dirs,            \* file system: absolute paths of the directories
    now,             \* the clock, in seconds
    mode,            \* "A" classify_videos_by_bitrate, "B" classify_from_json_report
    source_dir,      \* result["source_dir"] of the running batch
    target_dir,      \* target_dir of the running batch
    is_move,         \* is_move of the running batch
    video_files,     \* Mode A: the files found and not yet processed
    videos,          \* Mode B: report["videos"]
    completed,       \* the progress counter of the running batch
    total_files,     \* result["total_files"]
    results,         \* result["results"]
    stats,           \* VideoProcessor.stats
    ret,             \* what the last batch call returned
    written,         \* the JSON reports written under logs/, per mode
    lastOp,          \* what the last per-file step did
    startFiles,      \* the files when the running batch started
    call,            \* the arguments the batch operation is called with
    begun,           \* what held when the running batch began
    calls,           \* number of times the batch operation was called
    faults,          \* number of operating-system failures injected
    cli,             \* the command-line program: its arguments, the definition
                     \* bound to the name main, what it dispatched, its exit code
    probe,           \* the last analyze_video call: what the file and the decoder
                     \* reported and the value returned
    listing,         \* the last find_videos_in_folder call and the list returned
    fmt,             \* formatv: the last scan of a directory and what
                     \* check_and_save_duplicates did with it
    ren              \* engingv FolderRenamer: the last call and what it returned

tierVars == <<bitrate_step, max_steps, bitrate_levels, lastBitrate, lastLevel>>
fsVars == <<files, dirs>>
batchVars == <<mode, source_dir, target_dir, is_move, video_files, videos, completed,
               total_files, results, stats, ret, written, lastOp, startFiles, call,
               begun, calls, faults>>
engineVars == <<pc, tierVars, fsVars, now, batchVars>>
\* the state of what runs beside the engine, and the same without one part
toolVars == <<cli, probe, listing, fmt, ren>>
exceptCli == <<probe, listing, fmt, ren>>
exceptProbe == <<cli, listing, fmt, ren>>
exceptListing == <<cli, probe, fmt, ren>>
exceptFmt == <<cli, probe, listing, ren>>
exceptRen == <<cli, probe, listing, fmt>>
vars == <<engineVars, toolVars>>

(***************************************************************************)
(* Bounds of the model.                                                    *)
(***************************************************************************)
MaxStepHalves == 4      \* step sizes up to MaxStepHalves/2 Mbps are enumerated
MaxSteps == 3           \* level counts up to MaxSteps are enumerated
MaxCalls == 2           \* times the batch operation is called with its arguments
MaxReport == 2          \* records in a report
MaxClock == 1           \* seconds the clock can advance
MaxFaults == 1          \* operating-system failures (mkdir, move, copy) injected
MaxTemplate == 4        \* pieces of a name template

(***************************************************************************)
(* Program constants.                                                      *)
(***************************************************************************)
DEFAULT_BITRATE_STEP == 5
DEFAULT_BITRATE_LEVELS == 10
inf == 2000000000       \* float('inf'): above every bitrate of the model
OverflowName == <<"OVERFLOW">>   \* the name of the last, unbounded level

(***************************************************************************)
(* Python text helpers.                                                    *)
(***************************************************************************)
DigitChars == <<"0", "1", "2", "3", "4", "5", "6", "7", "8", "9">>

RECURSIVE Digits(_)
Digits(n) == IF n < 10 THEN <<DigitChars[n + 1]>>
             ELSE Digits(n \div 10) \o <<DigitChars[(n % 10) + 1]>>

Abs(n) == IF n < 0 THEN -n ELSE n

\* str(n) of a Python int
StrInt(n) == IF n < 0 THEN <<"-">> \o Digits(-n) ELSE Digits(n)

\* int(x) of the number halves/2: truncation towards zero
IntOf(halves) == IF halves >= 0 THEN halves \div 2 ELSE -((-halves) \div 2)

\* str(x) of a number: an int prints its digits, a float its repr ("1.5", "50.0")
StrNum(isFloat, halves) ==
    IF ~isFloat THEN StrInt(IntOf(halves))
    ELSE (IF halves < 0 THEN <<"-">> ELSE <<>>)
         \o Digits(Abs(halves) \div 2)
         \o <<".", IF Abs(halves) % 2 = 1 THEN "5" ELSE "0">>

RECURSIVE Zeros(_)
Zeros(n) == IF n <= 0 THEN <<>> ELSE <<"0">> \o Zeros(n - 1)

\* str.zfill(width): pad with zeros on the left, after a leading sign
zfill(s, width) ==
    IF Len(s) >= width THEN s
    ELSE IF Len(s) > 0 /\ s[1] \in {"-", "+"}
         THEN <<s[1]>> \o Zeros(width - Len(s)) \o Tail(s)
         ELSE Zeros(width - Len(s)) \o s

(***************************************************************************)
(* dict[key] = value on an insertion-ordered dict kept as a sequence of    *)
(* [name, threshold] items: an existing key keeps its place and takes the  *)
(* new value, a new key is appended.                                       *)
(***************************************************************************)
DictSet(d, k, v) ==
    IF \E j \in 1..Len(d) : d[j].name = k
    THEN [j \in 1..Len(d) |-> IF d[j].name = k THEN [name |-> k, threshold |-> v] ELSE d[j]]
    ELSE Append(d, [name |-> k, threshold |-> v])

(***************************************************************************)
(* create_bitrate_levels(step_mb, max_steps)                               *)
(***************************************************************************)
LevelDigits(step, n) == Len(StrNum(step.isFloat, n * step.halves))

LevelName(step, n, i) ==
    zfill(StrInt(IntOf(i * step.halves)), LevelDigits(step, n)) \o <<"M", "B">>

LevelThreshold(step, i) == i * step.halves * 500000

RECURSIVE LevelsUpTo(_, _, _)
LevelsUpTo(step, n, i) ==
    IF i < 1 THEN <<>>
    ELSE DictSet(LevelsUpTo(step, n, i - 1), LevelName(step, n, i), LevelThreshold(step, i))

create_bitrate_levels(step, n) ==
    DictSet(LevelsUpTo(step, n, n), OverflowName, inf)

(***************************************************************************)
(* get_bitrate_level(bitrate, levels)                                      *)
(***************************************************************************)
\* sorted(items, key=threshold): stable insertion sort
RECURSIVE InsertByThreshold(_, _)
InsertByThreshold(s, e) ==
    IF s = <<>> THEN <<e>>
    ELSE IF s[Len(s)].threshold <= e.threshold THEN Append(s, e)
         ELSE Append(InsertByThreshold(SubSeq(s, 1, Len(s) - 1), e), s[Len(s)])

RECURSIVE SortedItems(_)
SortedItems(d) ==
    IF d = <<>> THEN <<>>
    ELSE InsertByThreshold(SortedItems(SubSeq(d, 1, Len(d) - 1)), d[Len(d)])

Matches_lt(bitrate, threshold) == bitrate < threshold

\* the test of the loop, common_utils.py line 279
Matches(bitrate, threshold) == bitrate <= threshold

get_bitrate_level(bitrate, levels) ==
    LET items == SortedItems(levels)
        hits == {j \in 1..Len(items) : Matches(bitrate, items[j].threshold)}
    IN  IF hits # {}
        THEN items[CHOOSE j \in hits : \A k \in hits : j <= k].name
        ELSE levels[Len(levels)].name

(***************************************************************************)
(* Configurations and bitrates that are enumerated.                        *)
(***************************************************************************)
IntStep(n) == [isFloat |-> FALSE, halves |-> 2 * n]
FloatStep(h) == [isFloat |-> TRUE, halves |-> h]

StepValues ==
    {IntStep(n) : n \in -1..(MaxStepHalves \div 2)}
    \cup {FloatStep(h) : h \in -1..MaxStepHalves}

TierConfigs ==
    {[step |-> s, levels |-> n] : s \in StepValues, n \in -1..MaxSteps}
    \cup {[step |-> IntStep(DEFAULT_BITRATE_STEP), levels |-> DEFAULT_BITRATE_LEVELS],
          [step |-> FloatStep(2 * DEFAULT_BITRATE_STEP), levels |-> DEFAULT_BITRATE_LEVELS]}

StepPositive(step) == step.halves > 0
ValidConfig(step, n) == StepPositive(step) /\ n >= 1

Thresholds(levels) == {levels[j].threshold : j \in 1..Len(levels)}
Names(levels) == {levels[j].name : j \in 1..Len(levels)}

\* bitrates at, just below and just above every finite bound, and a few fixed ones
BitrateSamples(levels) ==
    {b \in UNION {{t - 1, t, t + 1} : t \in Thresholds(levels) \ {inf}}
            \cup {0, 2000000, 7000000, 60000000} : b >= 0}

(***************************************************************************)
(* Paths.  An absolute path is <<mount, component, ...>>; the empty        *)
(* sequence is the empty string.                                           *)
(***************************************************************************)
RootC == <<"C:">>
RootD == <<"D:">>
Dot == <<".">>
DotDot == <<".", ".">>
None == <<>>
Some(x) == <<x>>

\* os.path.dirname, os.path.basename
dirname(p) == IF Len(p) <= 1 THEN p ELSE SubSeq(p, 1, Len(p) - 1)
basename(p) == IF Len(p) <= 1 THEN <<>> ELSE p[Len(p)]

\* what the operating system (and os.path.abspath) makes of "." and ".."
RECURSIVE ResolveFrom(_, _)
ResolveFrom(acc, rest) ==
    IF rest = <<>> THEN acc
    ELSE IF Head(rest) = Dot THEN ResolveFrom(acc, Tail(rest))
    ELSE IF Head(rest) = DotDot
         THEN ResolveFrom(IF Len(acc) > 1 THEN SubSeq(acc, 1, Len(acc) - 1) ELSE acc, Tail(rest))
         ELSE ResolveFrom(Append(acc, Head(rest)), Tail(rest))

Resolve(p) == ResolveFrom(<<>>, p)

IsPrefix(a, b) == Len(a) <= Len(b) /\ SubSeq(b, 1, Len(a)) = a

CommonLen(a, b) ==
    CHOOSE i \in 0..Len(a) :
        /\ i <= Len(b)
        /\ SubSeq(a, 1, i) = SubSeq(b, 1, i)
        /\ \A j \in (i + 1)..Len(a) : j > Len(b) \/ SubSeq(a, 1, j) # SubSeq(b, 1, j)

RECURSIVE Ups(_)
Ups(n) == IF n <= 0 THEN <<>> ELSE <<DotDot>> \o Ups(n - 1)

\* os.path.relpath(path, start); ok = FALSE stands for the ValueError raised
\* for an empty path and for paths on different mounts
relpath(path, start) ==
    LET p == Resolve(path)
        s == Resolve(start)
    IN  IF p = <<>> \/ s = <<>> \/ p[1] # s[1]
        THEN [ok |-> FALSE, rel |-> <<>>]
        ELSE LET i == CommonLen(p, s)
                 rel == Ups(Len(s) - i) \o SubSeq(p, i + 1, Len(p))
             IN  [ok |-> TRUE, rel |-> IF rel = <<>> THEN <<Dot>> ELSE rel]

get_relative_path(path, base_path) == relpath(path, base_path)

\* os.path.join(dir, level, rel): an empty string adds no component
Join3(dir, level, rel) == dir \o (IF level = <<>> THEN <<>> ELSE <<level>>) \o rel

(***************************************************************************)
(* File names and extensions.                                              *)
(***************************************************************************)
VIDEO_FILE_TYPES ==
    {".mp4", ".avi", ".mkv", ".mov", ".wmv", ".flv", ".webm", ".m4v", ".mpg", ".mpeg", ".nov"}

ExtTokens == VIDEO_FILE_TYPES \cup {".MP4", ".txt", ".json"}

Lower(t) == IF t = ".MP4" THEN ".mp4" ELSE t

\* os.path.splitext of a file name: <<stem, extension>>
splitext(name) ==
    IF Len(name) >= 2 /\ name[Len(name)] \in ExtTokens
    THEN <<SubSeq(name, 1, Len(name) - 1), <<name[Len(name)]>>>>
    ELSE <<name, <<>>>>

is_video_file(file_path) ==
    LET ext == splitext(basename(file_path))[2]
    IN  ext # <<>> /\ Lower(ext[1]) \in VIDEO_FILE_TYPES

\* datetime.now().strftime("%Y%m%d%H%M%S"): the clock reading, to the second
Timestamp(clock) == Digits(clock)

\* f"{filename}_{timestamp}{ext}"
Stamped(name, clock) ==
    splitext(name)[1] \o <<"_">> \o Timestamp(clock) \o splitext(name)[2]

(***************************************************************************)
(* The files of the model and what the probe reads from them.              *)
(***************************************************************************)
SourceRoot == <<RootC, <<"a">>, <<"s">>>>
NameX == <<"x", ".mp4">>
NameY == <<"y", ".mp4">>
Label05 == <<"0", "5", "M", "B">>

File1 == Append(SourceRoot, NameX)
File2 == SourceRoot \o <<<<"sub">>, NameX>>
File3 == Append(SourceRoot, NameY)
File5 == SourceRoot \o <<Label05, <<"s">>, NameX>>   \* left by an earlier copy of File1

\* content id -> what cv2.VideoCapture and os.path.getsize report
MediaTable ==
    << [opens |-> TRUE,  size_bytes |-> 250000,  total_frames |-> 25, fps |-> 25,
        width |-> 1280, height |-> 720],
       [opens |-> TRUE,  size_bytes |-> 875000,  total_frames |-> 25, fps |-> 25,
        width |-> 1920, height |-> 1080],
       [opens |-> TRUE,  size_bytes |-> 7500000, total_frames |-> 25, fps |-> 25,
        width |-> 3840, height |-> 2160],
       [opens |-> FALSE, size_bytes |-> 1000,    total_frames |-> 0,  fps |-> 0,
        width |-> 0, height |-> 0] >>

InitFiles == (File1 :> 1) @@ (File2 :> 2) @@ (File3 :> 4) @@ (File5 :> 3)

Ancestors(p) == {SubSeq(p, 1, k) : k \in 1..(Len(p) - 1)}

InitDirs == {<<RootC>>, <<RootD>>} \cup UNION {Ancestors(p) : p \in DOMAIN InitFiles}

(***************************************************************************)
(* File system primitives, on a file map fl and a directory set ds.        *)
(***************************************************************************)
Exists_always(fl, ds, p) == TRUE
Exists(fl, ds, p) == Resolve(p) \in DOMAIN fl \/ Resolve(p) \in ds

IsDir(ds, p) == Resolve(p) \in ds

\* os.makedirs(path, exist_ok=True): every prefix of the path becomes a directory
MakeDirs(ds, p) == ds \cup {Resolve(SubSeq(p, 1, k)) : k \in 1..Len(p)}

\* ... and raises when a prefix is a regular file or the system refuses
MakeDirsRaises(fl, p, fault) ==
    \/ fault = "mkdir"
    \/ \E k \in 1..Len(p) : Resolve(SubSeq(p, 1, k)) \in DOMAIN fl

ensure_dir_exists(ds, p) == MakeDirs(ds, p)

Transfer_leaveSource(fl, src, dst, move) ==
    [p \in DOMAIN fl \cup {Resolve(dst)} |->
        IF p = Resolve(dst) THEN fl[Resolve(src)] ELSE fl[p]]

\* shutil.move / shutil.copy2 onto the file path dst; both replace a file at dst
Transfer(fl, src, dst, move) ==
    LET s == Resolve(src)
        d == Resolve(dst)
        keep == IF move THEN DOMAIN fl \ {s} ELSE DOMAIN fl
    IN  [p \in keep \cup {d} |-> IF p = d THEN fl[s] ELSE fl[p]]

\* shutil.copy2 writes the destination piece by piece, and shutil.move does
\* the same and then deletes the source when the destination is on another
\* mount (os.rename is used, and is atomic, on the same mount)
Copies(src, dst, move) == ~move \/ Resolve(src)[1] # Resolve(dst)[1]

\* the content of a destination whose copy was cut short (disk full): that
\* of a file the decoder cannot open
Truncated == 4

\* the failures of a transfer: "xfer" before anything is written, "partial"
\* in the middle of a copy
TransferRaises(fl, src, dst, move, fault) ==
    \/ fault = "xfer"
    \/ fault = "partial" /\ Copies(src, dst, move)
    \/ Resolve(src) \notin DOMAIN fl

\* the files after a transfer that raised: nothing is cleaned up
TransferFailed(fl, src, dst, move, fault) ==
    IF fault = "partial" /\ Copies(src, dst, move) /\ Resolve(src) \in DOMAIN fl
    THEN [p \in DOMAIN fl \cup {Resolve(dst)} |-> IF p = Resolve(dst) THEN Truncated ELSE fl[p]]
    ELSE fl

(***************************************************************************)
(* VideoInfo, ProcessResult, ProcessStats                                  *)
(***************************************************************************)
VideoInfo(path, duration, bitrate, width, height, fps, size_bytes) ==
    [path |-> path, duration |-> duration, bitrate |-> bitrate, width |-> width,
     height |-> height, fps |-> fps, size_bytes |-> size_bytes]

ProcessResult(success, source_path, target_path, video_info, bitrate_level, error_message) ==
    [success |-> success, source_path |-> source_path, target_path |-> target_path,
     video_info |-> video_info, bitrate_level |-> bitrate_level,
     error_message |-> error_message]

ProcessStats ==
    [successful_operations |-> 0, failed_operations |-> 0, total_size_bytes |-> 0,
     total_duration |-> 0, results_by_level |-> <<>>]

\* results_by_level[level].append(result) on an insertion-ordered dict of lists
GroupAppend(groups, level, result) ==
    IF \E j \in 1..Len(groups) : groups[j].level = level
    THEN [j \in 1..Len(groups) |->
            IF groups[j].level = level
            THEN [level |-> level, results |-> Append(groups[j].results, result)]
            ELSE groups[j]]
    ELSE Append(groups, [level |-> level, results |-> <<result>>])

add_result_countsOnly(st, result) ==
    IF result.success
    THEN [st EXCEPT !.successful_operations = @ + 1]
    ELSE [st EXCEPT !.failed_operations = @ + 1]

add_result(st, result) ==
    IF result.success
    THEN [successful_operations |-> st.successful_operations + 1,
          failed_operations |-> st.failed_operations,
          total_size_bytes |->
              IF result.video_info # None
              THEN st.total_size_bytes + result.video_info[1].size_bytes
              ELSE st.total_size_bytes,
          total_duration |->
              IF result.video_info # None
              THEN st.total_duration + result.video_info[1].duration
              ELSE st.total_duration,
          results_by_level |->
              IF result.bitrate_level # <<>>
              THEN GroupAppend(st.results_by_level, result.bitrate_level, result)
              ELSE st.results_by_level]
    ELSE [st EXCEPT !.failed_operations = @ + 1]

(***************************************************************************)
(* VideoAnalyzer.analyze_video: None (<<>>) or a VideoInfo                 *)
(***************************************************************************)
\* lines 66-101, m being what os.path.getsize and the VideoCapture report for
\* the file.  The numbers of the model are such that both quotients are whole.
analyze_opened(video_path, m) ==
    LET duration == IF m.fps > 0 THEN m.total_frames \div m.fps ELSE 0
        bitrate == IF duration > 0 THEN (m.size_bytes * 8) \div duration ELSE 0
    IN  IF ~m.opens THEN None
        ELSE Some(VideoInfo(video_path, duration, bitrate, m.width, m.height,
                            m.fps, m.size_bytes))

\* lines 58-64: the tests made before the file is opened
analyze_refused(fl, ds, video_path) ==
    \/ ~Exists(fl, ds, video_path)
    \/ ~is_video_file(video_path)
    \/ Resolve(video_path) \notin DOMAIN fl

analyze_video(fl, ds, video_path) ==
    IF analyze_refused(fl, ds, video_path) THEN None
    ELSE analyze_opened(video_path, MediaTable[fl[Resolve(video_path)]])

(***************************************************************************)
(* VideoAnalyzer.find_videos_in_folder                                     *)
(***************************************************************************)
\* the content of an entry that is neither a regular file nor a directory
\* (a FIFO, a socket): os.walk lists it among the files of its directory,
\* os.path.exists is true of it and os.path.isfile is false
Special == 0

isfile(fl, p) == Resolve(p) \in DOMAIN fl /\ fl[Resolve(p)] # Special

find_videos_in_folder(fl, ds, folder_path, recursive) ==
    IF ~Exists(fl, ds, folder_path) \/ ~IsDir(ds, folder_path) THEN {}
    ELSE IF recursive
         THEN {p \in DOMAIN fl : IsPrefix(Resolve(folder_path), dirname(p)) /\ is_video_file(p)}
         ELSE {p \in DOMAIN fl : /\ dirname(p) = Resolve(folder_path)
                                  /\ isfile(fl, p)
                                  /\ is_video_file(p)}

\* os.walk is top-down: the files of a directory come before those below it.
\* Within that, the order of a listing is fixed by the file system; the model
\* fixes one.
WalkFirst(remaining) ==
    {p \in remaining :
        \A q \in remaining : ~(dirname(q) # dirname(p) /\ IsPrefix(dirname(q), dirname(p)))}

WalkNext(remaining) ==
    IF remaining = {} THEN {} ELSE {CHOOSE p \in WalkFirst(remaining) : TRUE}

(***************************************************************************)
(* VideoAnalyzer.__init__                                                  *)
(***************************************************************************)
Construct(cfg) ==
    /\ bitrate_step' = cfg.step
    /\ max_steps' = cfg.levels
    /\ bitrate_levels' = create_bitrate_levels(cfg.step, cfg.levels)
    /\ pc' = "idle"
    /\ lastBitrate' = -1
    /\ lastLevel' = <<>>
    /\ UNCHANGED <<fsVars, now, batchVars, toolVars>>

\* VideoAnalyzer.get_video_bitrate_level applied to a VideoInfo of that bitrate
GetVideoBitrateLevel(b) ==
    /\ pc = "idle"
    /\ lastBitrate' = b
    /\ lastLevel' = get_bitrate_level(b, bitrate_levels)
    /\ UNCHANGED <<pc, bitrate_step, max_steps, bitrate_levels, fsVars, now, batchVars,
                   toolVars>>

(***************************************************************************)
(* Destination of one file: video_processor.py lines 74-93 and 341-360.    *)
(***************************************************************************)
MsgNoInfo == <<"cannot analyse video">>
MsgOSError == <<"OSError">>
MsgWrap == <<"error processing video: ">>

DestDir(video_path, target, level) ==
    LET r == get_relative_path(dirname(video_path), dirname(target))
    IN  Join3(target, level, IF r.ok THEN r.rel ELSE <<>>)

PlainDest(dest_dir, video_path) == Append(dest_dir, basename(video_path))

DestPath_nocheck(fl, ds, dest_dir, video_path, clock) == PlainDest(dest_dir, video_path)

DestPath(fl, ds, dest_dir, video_path, clock) ==
    IF Exists(fl, ds, PlainDest(dest_dir, video_path))
    THEN Append(dest_dir, Stamped(basename(video_path), clock))
    ELSE PlainDest(dest_dir, video_path)

\* the content of the regular file at p, 0 when there is none
ContentAt(fl, p) == IF Resolve(p) \in DOMAIN fl THEN fl[Resolve(p)] ELSE 0

NoOp ==
    [kind |-> "none", source |-> <<>>, target |-> <<>>, base |-> <<>>, level |-> <<>>,
     plain |-> <<>>, dest |-> <<>>, collided |-> FALSE, occupant |-> 0, content |-> 0,
     probed |-> FALSE, fault |-> "none"]

\* what a per-file step did: kind is "skipped", "failed", "aborted" or "placed"
Op(kind, source, target, base, level, plain, dest, collided, occupant, content, probed, fault) ==
    [kind |-> kind, source |-> source, target |-> target, base |-> base, level |-> level,
     plain |-> plain, dest |-> dest, collided |-> collided, occupant |-> occupant,
     content |-> content, probed |-> probed, fault |-> fault]

(***************************************************************************)
(* VideoProcessor.classify_video: the outcome and the file system after it *)
(***************************************************************************)
classify_video(fl, ds, clock, levels, base, video_path, target, move, fault) ==
    LET info == analyze_video(fl, ds, video_path)
    IN  IF info = None
        THEN [result |-> ProcessResult(FALSE, video_path, <<>>, None, <<>>, MsgNoInfo),
              files |-> fl, dirs |-> ds, fired |-> FALSE,
              op |-> Op("failed", video_path, target, base, <<>>, <<>>, <<>>, FALSE, 0,
                        ContentAt(fl, video_path), TRUE, "none")]
        ELSE
        LET level == get_bitrate_level(info[1].bitrate, levels)
            dest_dir == DestDir(video_path, target, level)
            plain == PlainDest(dest_dir, video_path)
        IN  IF MakeDirsRaises(fl, dest_dir, fault)
            THEN [result |-> ProcessResult(FALSE, video_path, <<>>, None, <<>>,
                                           MsgWrap \o MsgOSError),
                  files |-> fl, dirs |-> ds, fired |-> fault = "mkdir",
                  op |-> Op("failed", video_path, target, base, level, plain, <<>>, FALSE, 0,
                            ContentAt(fl, video_path), TRUE, "mkdir")]
            ELSE
            LET ds1 == ensure_dir_exists(ds, dest_dir)
                dest_path == DestPath(fl, ds1, dest_dir, video_path, clock)
                collided == Exists(fl, ds1, plain)
            IN  IF TransferRaises(fl, video_path, dest_path, move, fault)
                THEN [result |-> ProcessResult(FALSE, video_path, <<>>, None, <<>>,
                                               MsgWrap \o MsgOSError),
                      files |-> TransferFailed(fl, video_path, dest_path, move, fault),
                      dirs |-> ds1, fired |-> fault \in {"xfer", "partial"},
                      op |-> Op("failed", video_path, target, base, level, plain, dest_path,
                                collided, ContentAt(fl, plain),
                                ContentAt(fl, video_path), TRUE, "xfer")]
                ELSE [result |-> ProcessResult(TRUE, video_path, dest_path, info, level, <<>>),
                      files |-> Transfer(fl, video_path, dest_path, move),
                      dirs |-> ds1, fired |-> FALSE,
                      op |-> Op("placed", video_path, target, base, level, plain, dest_path,
                                collided, ContentAt(fl, plain),
                                ContentAt(fl, video_path), TRUE, "none")]

(***************************************************************************)
(* What a batch call returns.                                              *)
(***************************************************************************)
NoReturn == [kind |-> "none", success |-> FALSE, error |-> <<>>]
Failure(msg) == [kind |-> "failure", success |-> FALSE, error |-> msg]
Report(m, src, tgt, move, total, res, st) ==
    [kind |-> "report", success |-> TRUE, error |-> <<>>, mode |-> m, source_dir |-> src,
     target_dir |-> tgt, is_move |-> move, total_files |-> total, results |-> res,
     stats |-> [successful_operations |-> st.successful_operations,
                failed_operations |-> st.failed_operations,
                total_size_bytes |-> st.total_size_bytes,
                total_duration |-> st.total_duration]]

MsgNoVideos == <<"no video files found">>
MsgNoSourceDir == <<"source directory not found">>
MsgNoRecords == <<"report holds no videos">>
MsgReplay == <<"error classifying from report: ">>

\* at the beginning of a batch: is it a repeated call, does every record of
\* the report name a missing path, did the call before it end without failures
Begun(again, allMissing, clean) ==
    [again |-> again, allMissing |-> allMissing, clean |-> clean]

PrevClean == ret.kind = "report" /\ ret.stats.failed_operations = 0

Faults == {"none"} \cup (IF faults < MaxFaults THEN {"mkdir", "xfer", "partial"} ELSE {})

\* directories a Mode A batch may be pointed at
ScanSources == {SourceRoot, <<RootC, <<"a">>, <<"gone">>>>}
ScanTargets ==
    {None,                                   \* target_dir defaults to source_dir
     Append(SourceRoot, <<"out">>),          \* a child of the source directory
     <<RootC, <<"b">>, <<"t">>>>,            \* elsewhere on the same mount
     <<RootD, <<"t">>>>}                     \* on another mount

(***************************************************************************)
(* VideoProcessor.classify_videos_by_bitrate (Mode A)                      *)
(***************************************************************************)
\* lines 147-205: up to the loop
StartScan(src, tgt, move, recursive) ==
    /\ pc = "idle"
    /\ LET target == IF tgt = None THEN src ELSE tgt
           ds1 == ensure_dir_exists(dirs, target)
           found == find_videos_in_folder(files, ds1, src, recursive)
       IN  /\ mode' = "A"
           /\ source_dir' = src
           /\ target_dir' = target
           /\ is_move' = move
           /\ stats' = ProcessStats
           /\ results' = <<>>
           /\ completed' = 0
           /\ videos' = <<>>
           /\ lastOp' = NoOp
           /\ startFiles' = files
           /\ begun' = Begun(calls > 0, FALSE, PrevClean)
           /\ calls' = calls + 1
           /\ IF found = {}
              THEN /\ dirs' = ds1
                   /\ pc' = "idle"
                   /\ video_files' = {}
                   /\ total_files' = 0
                   /\ ret' = Failure(MsgNoVideos)
                   /\ written' = written
              ELSE /\ dirs' = ensure_dir_exists(ds1, Append(target, <<"logs">>))
                   /\ pc' = "scan"
                   /\ video_files' = found
                   /\ total_files' = Cardinality(found)
                   /\ ret' = NoReturn
                   /\ written' = [written EXCEPT !.logs = @ + 1]
    /\ UNCHANGED <<tierVars, files, now, call, faults, toolVars>>

\* lines 207-226: one iteration of the loop
ScanStep(video_path, fault) ==
    /\ pc = "scan"
    /\ video_path \in WalkNext(video_files)
    /\ \E r \in {classify_video(files, dirs, now, bitrate_levels, source_dir, video_path,
                                target_dir, is_move, fault)} :
           /\ fault # "none" => r.fired
           /\ files' = r.files
           /\ dirs' = r.dirs
           /\ stats' = add_result(stats, r.result)
           /\ results' = Append(results, r.result)
           /\ lastOp' = r.op
           /\ faults' = IF r.fired THEN faults + 1 ELSE faults
    /\ video_files' = video_files \ {video_path}
    /\ completed' = completed + 1
    /\ UNCHANGED <<pc, tierVars, now, mode, source_dir, target_dir, is_move, videos,
                   total_files, ret, written, startFiles, call, begun, calls, toolVars>>

\* lines 228-248: after the loop
ScanFinish(json_report) ==
    /\ pc = "scan"
    /\ video_files = {}
    /\ pc' = "idle"
    /\ ret' = Report("A", source_dir, target_dir, is_move, total_files, results, stats)
    /\ written' = IF json_report THEN [written EXCEPT !.reports = @ + 1] ELSE written
    /\ UNCHANGED <<tierVars, fsVars, now, mode, source_dir, target_dir, is_move, video_files,
                   videos, completed, total_files, results, stats, lastOp, startFiles, call,
                   begun, calls, faults, toolVars>>

(***************************************************************************)
(* VideoInfo.to_dict / VideoInfo.from_dict: the "info" of a report record  *)
(***************************************************************************)
\* round(n / d, 0) for n, d >= 0: Python rounds halves to even
RoundDiv(n, d) ==
    LET q == n \div d
        r == n % d
    IN  IF 2 * r > d THEN q + 1
        ELSE IF 2 * r < d THEN q
        ELSE IF q % 2 = 0 THEN q ELSE q + 1

\* the keys from_dict looks for ("path", "duration", "bitrate", "size_bytes")
\* are not written; size_mb is kept in tenths of a megabyte
VideoInfo_to_dict(info) ==
    [filename |-> basename(info.path),
     bitrate_mbps |-> IF info.bitrate > 0 THEN RoundDiv(info.bitrate, 1000000) ELSE 0,
     width |-> info.width,
     height |-> info.height,
     fps |-> info.fps,
     size_mb |-> IF info.size_bytes > 0 THEN RoundDiv(info.size_bytes * 10, 1024 * 1024) ELSE 0]

VideoInfo_from_dict(data) ==
    VideoInfo(<<>>, 0, 0, data.width, data.height, data.fps, 0)

(***************************************************************************)
(* Reports handed to classify_from_json_report.                            *)
(***************************************************************************)
DefaultLevels == create_bitrate_levels(IntStep(DEFAULT_BITRATE_STEP), DEFAULT_BITRATE_LEVELS)

\* a record as analyze_folder writes it for a file of the initial file system
AnalysedRecord(p) ==
    LET info == analyze_video(InitFiles, InitDirs, p)[1]
    IN  [path |-> p, info |-> Some(VideoInfo_to_dict(info)),
         bitrate_level |-> get_bitrate_level(info.bitrate, DefaultLevels)]

\* a record that carries neither a level nor an info
BareRecord(p) == [path |-> p, info |-> None, bitrate_level |-> <<>>]

Records ==
    {AnalysedRecord(File1), AnalysedRecord(File5),
     BareRecord(File1), BareRecord(File3), BareRecord(<<>>)}

RECURSIVE SeqsUpTo(_, _)
SeqsUpTo(S, n) ==
    IF n = 0 THEN {<<>>}
    ELSE LET shorter == SeqsUpTo(S, n - 1)
         IN  shorter \cup {Append(s, x) : s \in {t \in shorter : Len(t) = n - 1}, x \in S}

GoneDir == <<RootC, <<"a">>, <<"gone">>>>

Reports ==
    {[malformed |-> FALSE, folder_path |-> SourceRoot, videos |-> v] :
        v \in SeqsUpTo(Records, MaxReport)}
    \cup {[malformed |-> FALSE, folder_path |-> d, videos |-> <<AnalysedRecord(File1)>>] :
            d \in {GoneDir, <<>>}}
    \cup {[malformed |-> TRUE, folder_path |-> <<>>, videos |-> <<>>]}

(***************************************************************************)
(* classify_from_json_report (Mode B): one record, lines 321-399           *)
(***************************************************************************)
Skips_emptyOnly(fl, ds, video_path) == video_path = <<>>

\* line 323: the record is passed over
\* line 335: the analyzer is asked only when the record carries no level
Probes_always(video) == TRUE
Probes(video) == video.bitrate_level = <<>>

Skips(fl, ds, video_path) == video_path = <<>> \/ ~Exists(fl, ds, video_path)

replay_record(fl, ds, clock, levels, video, target, move, fault) ==
    LET video_path == video.path
    IN  IF Skips(fl, ds, video_path)
        THEN [skipped |-> TRUE, aborted |-> FALSE, result |-> None, files |-> fl,
              dirs |-> ds, fired |-> FALSE,
              op |-> Op("skipped", video_path, target, target, <<>>, <<>>, <<>>, FALSE, 0, 0,
                        FALSE, "none")]
        ELSE
        LET probed == Probes(video)
            video_info == IF probed THEN analyze_video(fl, ds, video_path) ELSE None
            level == IF ~probed THEN video.bitrate_level
                     ELSE IF video_info # None
                          THEN get_bitrate_level(video_info[1].bitrate, levels)
                          ELSE <<>>
            dest_dir == DestDir(video_path, target, level)
            plain == PlainDest(dest_dir, video_path)
        IN  IF MakeDirsRaises(fl, dest_dir, fault)
            THEN [skipped |-> FALSE, aborted |-> TRUE, result |-> None, files |-> fl,
                  dirs |-> ds, fired |-> fault = "mkdir",
                  op |-> Op("aborted", video_path, target, target, level, plain, <<>>, FALSE,
                            0, ContentAt(fl, video_path), probed, "mkdir")]
            ELSE
            LET ds1 == ensure_dir_exists(ds, dest_dir)
                dest_path == DestPath(fl, ds1, dest_dir, video_path, clock)
                collided == Exists(fl, ds1, plain)
            IN  IF TransferRaises(fl, video_path, dest_path, move, fault)
                THEN [skipped |-> FALSE, aborted |-> FALSE,
                      result |-> Some(ProcessResult(FALSE, video_path, <<>>, None, <<>>,
                                                    MsgOSError)),
                      files |-> TransferFailed(fl, video_path, dest_path, move, fault),
                      dirs |-> ds1, fired |-> fault \in {"xfer", "partial"},
                      op |-> Op("failed", video_path, target, target, level, plain, dest_path,
                                collided, ContentAt(fl, plain), ContentAt(fl, video_path),
                                probed, "xfer")]
                ELSE [skipped |-> FALSE, aborted |-> FALSE,
                      result |-> Some(ProcessResult(TRUE, video_path, dest_path,
                                        IF video.info # None
                                        THEN Some(VideoInfo_from_dict(video.info[1]))
                                        ELSE None,
                                        level, <<>>)),
                      files |-> Transfer(fl, video_path, dest_path, move),
                      dirs |-> ds1, fired |-> FALSE,
                      op |-> Op("placed", video_path, target, target, level, plain, dest_path,
                                collided, ContentAt(fl, plain), ContentAt(fl, video_path),
                                probed, "none")]

\* every record of the report names no existing path
AllMissing(fl, ds, vs) ==
    \A i \in 1..Len(vs) : vs[i].path = <<>> \/ Resolve(vs[i].path) \notin (DOMAIN fl \cup ds)

\* lines 261-319: up to the loop
StartReport(report, move) ==
    /\ pc = "idle"
    /\ UNCHANGED <<tierVars, files, now, call, faults, toolVars>>
    /\ LET folder == report.folder_path
           logs_dir == Append(folder, <<"logs">>)
       IN  /\ mode' = "B"
           /\ is_move' = move
           /\ video_files' = {}
           /\ lastOp' = NoOp
           /\ startFiles' = files
           /\ results' = <<>>
           /\ completed' = 0
           /\ begun' = Begun(calls > 0, AllMissing(files, dirs, report.videos), PrevClean)
           /\ calls' = calls + 1
           /\ IF report.malformed
              THEN /\ ret' = Failure(MsgReplay \o <<"JSONDecodeError">>)
                   /\ pc' = "idle"
                   /\ UNCHANGED <<source_dir, target_dir, videos, total_files, stats, written,
                                  dirs>>
              ELSE IF folder = <<>> \/ ~Exists(files, dirs, folder)
              THEN /\ ret' = Failure(MsgNoSourceDir)
                   /\ pc' = "idle"
                   /\ UNCHANGED <<source_dir, target_dir, videos, total_files, stats, written,
                                  dirs>>
              ELSE IF report.videos = <<>>
              THEN /\ ret' = Failure(MsgNoRecords)
                   /\ pc' = "idle"
                   /\ source_dir' = folder
                   /\ target_dir' = folder
                   /\ videos' = report.videos
                   /\ UNCHANGED <<total_files, stats, written, dirs>>
              ELSE IF MakeDirsRaises(files, logs_dir, "none")
              THEN /\ ret' = Failure(MsgReplay \o MsgOSError)
                   /\ pc' = "idle"
                   /\ source_dir' = folder
                   /\ target_dir' = folder
                   /\ videos' = report.videos
                   /\ stats' = ProcessStats
                   /\ UNCHANGED <<total_files, written, dirs>>
              ELSE /\ ret' = NoReturn
                   /\ pc' = "report"
                   /\ source_dir' = folder
                   /\ target_dir' = folder
                   /\ videos' = report.videos
                   /\ stats' = ProcessStats
                   /\ total_files' = Len(report.videos)
                   /\ dirs' = ensure_dir_exists(dirs, logs_dir)
                   /\ written' = [written EXCEPT !.logs = @ + 1]

\* lines 321-399: one iteration of the loop
ReportStep(fault) ==
    /\ pc = "report"
    /\ completed < Len(videos)
    /\ \E r \in {replay_record(files, dirs, now, bitrate_levels, videos[completed + 1],
                               target_dir, is_move, fault)} :
           /\ fault # "none" => r.fired
           /\ files' = r.files
           /\ dirs' = r.dirs
           /\ lastOp' = r.op
           /\ faults' = IF r.fired THEN faults + 1 ELSE faults
           /\ IF r.aborted
              THEN /\ pc' = "idle"
                   /\ ret' = Failure(MsgReplay \o MsgOSError)
                   /\ UNCHANGED <<completed, results, stats>>
              ELSE /\ completed' = completed + 1
                   /\ results' = IF r.skipped THEN results ELSE Append(results, r.result[1])
                   /\ stats' = IF r.skipped THEN stats ELSE add_result(stats, r.result[1])
                   /\ UNCHANGED <<pc, ret>>
    /\ UNCHANGED <<tierVars, now, mode, source_dir, target_dir, is_move, video_files, videos,
                   total_files, written, startFiles, call, begun, calls, toolVars>>

\* lines 401-420: after the loop
ReportFinish ==
    /\ pc = "report"
    /\ completed = Len(videos)
    /\ pc' = "idle"
    /\ ret' = Report("B", source_dir, target_dir, is_move, total_files, results, stats)
    /\ written' = [written EXCEPT !.reports = @ + 1]
    /\ UNCHANGED <<tierVars, fsVars, now, mode, source_dir, target_dir, is_move, video_files,
                   videos, completed, total_files, results, stats, lastOp, startFiles, call,
                   begun, calls, faults, toolVars>>

\* the clock advances
Tick ==
    /\ now < MaxClock
    /\ now' = now + 1
    /\ UNCHANGED <<pc, tierVars, fsVars, batchVars, toolVars>>

\* the calls a run of the engine may consist of: one batch operation with
\* its arguments, which the user may repeat
Calls ==
    {[mode |-> "A", source_dir |-> src, target_dir |-> tgt, is_move |-> move,
      recursive |-> recursive, report |-> <<>>] :
        src \in ScanSources, tgt \in ScanTargets, move \in BOOLEAN, recursive \in BOOLEAN}
    \cup {[mode |-> "B", source_dir |-> <<>>, target_dir |-> <<>>, is_move |-> move,
           recursive |-> FALSE, report |-> Some(report)] :
            report \in Reports, move \in BOOLEAN}

(***************************************************************************)
(* The command line: __main__.py.                                          *)
(***************************************************************************)
\* the module is not run as a program
NoCli ==
    [stage |-> "off", main |-> 0, args |-> [command |-> "none"], dispatched |-> "none",
     interrupted |-> FALSE, exit_code |-> -1]

\* tier options as argparse delivers them: --step is a float, --levels an int
CliConfigs ==
    {[step |-> FloatStep(2 * DEFAULT_BITRATE_STEP), levels |-> DEFAULT_BITRATE_LEVELS],
     [step |-> FloatStep(0), levels |-> DEFAULT_BITRATE_LEVELS],
     [step |-> FloatStep(2 * DEFAULT_BITRATE_STEP), levels |-> 0]}

CliFiles == {File1, File3, <<RootC, <<"a">>, <<"gone">>, NameX>>}

\* sys.argv after parsing; command "none" is a call without arguments
CliArgs ==
    {[command |-> "none"]}
    \cup {[command |-> "analyze", path |-> p, recursive |-> r, config |-> cfg] :
            p \in ScanSources, r \in BOOLEAN, cfg \in CliConfigs}
    \cup {[command |-> "classify", path |-> c.source_dir, target |-> c.target_dir,
           move |-> c.is_move, recursive |-> c.recursive, config |-> cfg] :
            c \in {d \in Calls : d.mode = "A"}, cfg \in CliConfigs}
    \cup {[command |-> "report", report |-> c.report[1], move |-> c.is_move] :
            c \in {d \in Calls : d.mode = "B"}}
    \cup {[command |-> "analyze-file", file |-> f] : f \in CliFiles}

\* sys.exit(value): None and 0 are success
ExitStatus(value) == IF value = None THEN 0 ELSE value[1]

\* run_with_args (lines 334-377): 0 unless the dispatched call lets an
\* exception escape
run_with_args(args, raised) ==
    [dispatched |-> args.command, value |-> Some(IF raised THEN 1 ELSE 0)]

\* main as defined at line 380
main_380(args, raised, interrupt) ==
    IF interrupt
    THEN [dispatched |-> "none", value |-> Some(1)]
    ELSE IF args.command = "none"
    THEN [dispatched |-> "menu", value |-> None]
    ELSE run_with_args(args, raised)

\* main as defined at line 442: the menu when there is no argument, and
\* nothing otherwise
main_442(args) ==
    IF args.command = "none"
    THEN [dispatched |-> "menu", value |-> None]
    ELSE [dispatched |-> "none", value |-> None]

\* the module body runs from top to bottom: def main (line 380) ...
DefMain380 ==
    /\ cli.stage = "import"
    /\ cli.main = 0
    /\ cli' = [cli EXCEPT !.main = 380]
    /\ UNCHANGED <<engineVars, exceptCli>>

\* ... def main again (line 442), which rebinds the name ...
DefMain442 ==
    /\ cli.stage = "import"
    /\ cli.main = 380
    /\ cli' = [cli EXCEPT !.main = 442, !.stage = "defined"]
    /\ UNCHANGED <<engineVars, exceptCli>>

\* ... and sys.exit(main()) at lines 452-453.  An exception can escape only
\* from a dispatched call; the user can interrupt only while the program
\* waits or works.  An interrupt nobody catches ends Python with status 130.
SysExitMain(raised, interrupt) ==
    /\ cli.stage = "defined"
    /\ LET r == IF cli.main = 442 THEN main_442(cli.args)
                ELSE main_380(cli.args, raised, interrupt)
           ran == r.dispatched # "none" \/ cli.main = 380
       IN  /\ interrupt => ran
           /\ raised => (cli.main = 380 /\ cli.args.command # "none")
           /\ cli' = [cli EXCEPT !.stage = "exited",
                                 !.dispatched = r.dispatched,
                                 !.interrupted = interrupt,
                                 !.exit_code = IF interrupt /\ cli.main = 442 THEN 130
                                               ELSE ExitStatus(r.value)]
    /\ UNCHANGED <<engineVars, exceptCli>>

(***************************************************************************)
(* analyze_video on its own, for every value the file and the decoder can  *)
(* report.                                                                 *)
(***************************************************************************)
NoProbe == [path |-> <<>>, media |-> <<>>, info |-> None]

\* os.path.getsize
ProbeSizes == {0, 1, 1000}
\* int(cap.get(CAP_PROP_FRAME_COUNT)): negative for a stream of unknown length
ProbeFrames == {-4, -2, 0, 2, 4}
\* cap.get(CAP_PROP_FPS)
ProbeFps == {-1, 0, 1, 2}

ProbeMedia ==
    {[opens |-> o, size_bytes |-> s, total_frames |-> n, fps |-> f, width |-> 1280,
      height |-> 720] : o \in BOOLEAN, s \in ProbeSizes, n \in ProbeFrames, f \in ProbeFps}

ProbePaths == {File1, <<RootC, <<"a">>, <<"gone">>, NameX>>}

\* VideoAnalyzer.analyze_video(video_path) on a file for which m is reported
AnalyzeVideo(video_path, m) ==
    /\ probe' = [path |-> video_path, media |-> Some(m),
                 info |-> IF analyze_refused(files, dirs, video_path) THEN None
                          ELSE analyze_opened(video_path, m)]
    /\ UNCHANGED <<engineVars, exceptProbe>>

(***************************************************************************)
(* find_videos_in_folder on its own, over folders that hold regular files  *)
(* with and without a video extension, a FIFO and a nested directory.      *)
(***************************************************************************)
NoListing == [folder_path |-> <<>>, recursive |-> FALSE, result |-> {}]

NameUpper == <<"y", ".MP4">>
NameDoc == <<"doc", ".txt">>
NamePipe == <<"pipe", ".mp4">>
OtherRoot == <<RootC, <<"a">>, <<"o">>>>

\* entries a folder tree may hold: path and content
FindEntries ==
    {[path |-> Append(SourceRoot, NameX), content |-> 1],
     [path |-> SourceRoot \o <<<<"sub">>, NameX>>, content |-> 1],
     [path |-> Append(SourceRoot, NameUpper), content |-> 1],
     [path |-> Append(SourceRoot, NameDoc), content |-> 1],
     [path |-> Append(SourceRoot, NamePipe), content |-> Special],
     [path |-> Append(OtherRoot, NameX), content |-> 1]}

FindFiles(es) == [p \in {e.path : e \in es} |-> (CHOOSE e \in es : e.path = p).content]
FindDirs(es) == {<<RootC>>, <<RootC, <<"a">>>>, SourceRoot} \cup UNION {Ancestors(e.path) : e \in es}

\* the folder_path arguments: a folder, a folder that may be missing, a
\* regular file and a path that does not exist
FindRoots ==
    {SourceRoot, Append(SourceRoot, <<"sub">>), Append(SourceRoot, NameX),
     <<RootC, <<"a">>, <<"gone">>>>}

\* VideoAnalyzer.find_videos_in_folder(folder_path, recursive)
FindVideosInFolder(folder_path, recursive) ==
    /\ listing' = [folder_path |-> folder_path, recursive |-> recursive,
                   result |-> find_videos_in_folder(files, dirs, folder_path, recursive)]
    /\ UNCHANGED <<engineVars, exceptListing>>

(***************************************************************************)
(* formatv: configuration (config.py), scan.find_video_files and           *)
(* execute.check_and_save_duplicates.                                      *)
(***************************************************************************)
get_video_extensions ==
    {".mp4", ".avi", ".mkv", ".wmv", ".mov", ".flv", ".webm", ".m4v", ".ts", ".mts",
     ".mpeg", ".mpg", ".m2ts"}

HbPrefix == "[#hb]"
get_prefix_list == <<[name |-> "hb", prefix |-> HbPrefix]>>
PrefixNames == {get_prefix_list[i].name : i \in 1..Len(get_prefix_list)}

\* DEFAULT_CONFIG has no "blacklist"
get_blacklist == {}

\* name.lower().endswith(suffix), the suffix being one token of the name
EndsWith(name, suffix) == Len(name) >= 1 /\ Lower(name[Len(name)]) = suffix
\* name.startswith(prefix): the name itself, not lower-cased
StartsWith(name, prefix) == Len(name) >= 1 /\ name[1] = prefix
\* name[:-4] of a name that ends with ".nov"
StripNov(name) == SubSeq(name, 1, Len(name) - 1)

HasVideoExtension(name) == \E ext \in get_video_extensions : EndsWith(name, ext)

\* lines 76-83: the name of the first configured prefix the file starts with
FirstPrefix(file) ==
    LET hits == {i \in 1..Len(get_prefix_list) : StartsWith(file, get_prefix_list[i].prefix)}
    IN  IF hits = {} THEN None
        ELSE Some(get_prefix_list[CHOOSE i \in hits : \A j \in hits : i <= j].name)

\* lines 63-87: the list a file goes to, "none" when it goes to no list
FileClass(file) ==
    IF EndsWith(file, ".nov")
    THEN (IF HasVideoExtension(StripNov(file)) THEN "nov" ELSE "none")
    ELSE IF FirstPrefix(file) # None THEN "prefixed"
    ELSE IF HasVideoExtension(file) THEN "normal"
    ELSE "none"

\* os.walk(directory): the files at every level below the directory, none
\* when it is not a directory; no root is skipped for the empty blacklist
Walked(fl, ds, directory) ==
    IF Resolve(directory) \notin ds THEN {}
    ELSE {p \in DOMAIN fl : IsPrefix(Resolve(directory), dirname(p))}

find_video_files(fl, ds, directory) ==
    [nov_files |-> {p \in Walked(fl, ds, directory) : FileClass(basename(p)) = "nov"},
     normal_files |-> {p \in Walked(fl, ds, directory) : FileClass(basename(p)) = "normal"},
     prefixed_files |->
        [n \in PrefixNames |->
            {p \in Walked(fl, ds, directory) :
                /\ FileClass(basename(p)) = "prefixed"
                /\ FirstPrefix(basename(p)) = Some(n)}],
     skipped_paths |-> {}]

NoFmt == [op |-> "none", directory |-> <<>>, scan |-> <<>>, out |-> <<>>]

\* names a scanned directory may hold; the first five are those of the
\* fixture of test_scan_and_execute.py
FmtNames ==
    {<<"movie", ".mkv">>, <<HbPrefix, "movie", ".mp4">>, <<"clip", ".mp4">>,
     <<HbPrefix, "clip", ".mkv">>, <<"doc", ".txt">>,
     <<HbPrefix, "notes", ".txt">>, <<"old", ".mp4", ".nov">>,
     <<HbPrefix, "old", ".mp4", ".nov">>, <<"doc", ".txt", ".nov">>}

\* file sizes of the fixture: content id -> bytes
FmtSize(name) ==
    IF name = <<"movie", ".mkv">> THEN 100
    ELSE IF name = <<HbPrefix, "movie", ".mp4">> THEN 150
    ELSE IF name = <<"clip", ".mp4">> THEN 200
    ELSE IF name = <<HbPrefix, "clip", ".mkv">> THEN 120
    ELSE 5

FmtFiles(names) == [p \in {Append(SourceRoot, n) : n \in names} |-> FmtSize(basename(p))]
FmtDirs == {<<RootC>>, <<RootC, <<"a">>>>, SourceRoot}

\* Path(name).stem: the name without its last suffix
Stem(name) ==
    IF Len(name) >= 2 /\ name[Len(name)] \in ExtTokens \cup get_video_extensions \cup {".nov"}
    THEN SubSeq(name, 1, Len(name) - 1)
    ELSE name

KeyOfNormal(f) == <<dirname(f), Stem(basename(f))>>
\* lines 97-102: the name before .nov, without its extension
KeyOfNov(f) == <<dirname(f), Stem(StripNov(basename(f)))>>
\* lines 110-113: the name after the prefix, without its extension
KeyOfPrefixed(f) == <<dirname(f), Stem(Tail(basename(f)))>>

\* lines 86-102: what non_prefixed_lookup holds for a key, as a set with at
\* most one member: the nov files are entered after the normal ones and
\* replace them.  No two normal files, and no two nov files, of the model
\* have the same key.
LookupValues(scan, key) ==
    IF \E f \in scan.nov_files : KeyOfNov(f) = key
    THEN {Append(dirname(f), StripNov(basename(f))) :
            f \in {g \in scan.nov_files : KeyOfNov(g) = key}}
    ELSE {f \in scan.normal_files : KeyOfNormal(f) = key}

OutputName == <<"duplicate_videos", ".txt">>

\* lines 51-139; value is what the call returns, saved the lines written to
\* the output file
check_and_save_duplicates(fl, ds, output_dir, scan, prefix_name) ==
    LET known == \E i \in 1..Len(get_prefix_list) : get_prefix_list[i].name = prefix_name
        prefixed_files == IF prefix_name \in DOMAIN scan.prefixed_files
                          THEN scan.prefixed_files[prefix_name] ELSE {}
        duplicates == UNION {LookupValues(scan, KeyOfPrefixed(f)) : f \in prefixed_files}
        output_path == Append(output_dir, OutputName)
    IN  IF ~known \/ prefixed_files = {} \/ duplicates = {}
           \/ Resolve(output_dir) \notin ds
        THEN [value |-> None, saved |-> {}, files |-> fl]
        ELSE [value |-> None, saved |-> duplicates,
              files |-> [p \in DOMAIN fl \cup {output_path} |->
                            IF p = output_path THEN Cardinality(duplicates) ELSE fl[p]]]

\* execute.check_and_save_duplicates(output_dir, scan_results, prefix_name)
CheckAndSaveDuplicates(prefix_name) ==
    /\ fmt.op = "scan"
    /\ \E r \in {check_and_save_duplicates(files, dirs, fmt.directory, fmt.scan[1],
                                            prefix_name)} :
          /\ fmt' = [fmt EXCEPT !.op = "dups",
                                !.out = [value |-> r.value, saved |-> r.saved,
                                         prefix_name |-> prefix_name]]
          /\ files' = r.files
    /\ UNCHANGED <<pc, tierVars, dirs, now, batchVars, exceptFmt>>

\* scan.find_video_files(directory)
FindVideoFiles(directory) ==
    /\ fmt.op = "none"
    /\ fmt' = [op |-> "scan", directory |-> directory,
               scan |-> Some(find_video_files(files, dirs, directory)), out |-> <<>>]
    /\ UNCHANGED <<engineVars, exceptFmt>>

(***************************************************************************)
(* formatv adding and removing the .nov suffix (execute.py lines 23-229).  *)
(* The main thread submits one call of process_single_file for every file  *)
(* to process to a ThreadPoolExecutor and collects the futures as they     *)
(* complete; the workers run concurrently, each through os.stat, os.rename *)
(* and os.utime.                                                           *)
(***************************************************************************)
\* lines 156 and 201: the filter with no test at all
files_to_process_all(files_in, add_nov) == files_in
\* lines 156 and 201
files_to_process(files_in, add_nov) ==
    LET keep(f) == IF add_nov THEN ~EndsWith(basename(f), ".nov")
                   ELSE EndsWith(basename(f), ".nov")
    IN  SelectSeq(files_in, keep)

\* line 42: file_path + '.nov' or file_path[:-4]
nov_path(file_path, add_nov) ==
    Append(dirname(file_path),
           IF add_nov THEN Append(basename(file_path), ".nov")
           ELSE StripNov(basename(file_path)))

\* line 43, os.rename of a file: raises when the source is missing or the
\* destination exists
rename_raises(fl, ds, src, dst) == src \notin DOMAIN fl \/ Exists(fl, ds, dst)
os_rename(fl, src, dst) ==
    [p \in (DOMAIN fl \ {src}) \cup {dst} |-> IF p = dst THEN fl[src] ELSE fl[p]]

PoolClip == Append(SourceRoot, <<"clip", ".mp4">>)
PoolClipNov == Append(SourceRoot, <<"clip", ".mp4", ".nov">>)
PoolMovie == Append(SourceRoot, <<"movie", ".mkv">>)
PoolOld == Append(SourceRoot, <<"old", ".mp4", ".nov">>)
PoolGone == Append(SourceRoot, <<"gone", ".mp4">>)

\* the files on disk and the lists handed to the two functions
PoolPaths == {PoolClip, PoolClipNov, PoolMovie, PoolOld}
PoolFiles(paths) == [p \in paths |-> FmtSize(basename(p))]
PoolInputs ==
    {<<>>, <<PoolClip>>, <<PoolOld>>, <<PoolClip, PoolOld>>, <<PoolClip, PoolClip>>,
     <<PoolOld, PoolOld>>, <<PoolClip, PoolMovie, PoolGone>>, <<PoolOld, PoolClipNov>>,
     <<PoolClipNov, PoolClip, PoolOld>>}

\* lines 152-159 and 197-204: the counters, the filter and the early return
NovStart(files_in, add_nov) ==
    /\ fmt.op = "none"
    /\ \E todo \in {files_to_process(files_in, add_nov)} :
          fmt' = [op |-> IF add_nov THEN "add_nov" ELSE "remove_nov",
                  add_nov |-> add_nov, files_in |-> files_in,
                  files_to_process |-> todo,
                  at |-> IF todo = <<>> THEN "returned" ELSE "submit",
                  task |-> [i \in 1..Len(todo) |-> "new"],
                  runs |-> [i \in 1..Len(todo) |-> 0],
                  result |-> [i \in 1..Len(todo) |-> FALSE],
                  yielded |-> [i \in 1..Len(todo) |-> 0],
                  success_count |-> 0, error_files |-> <<>>]
    /\ UNCHANGED <<engineVars, exceptFmt>>

add_nov_extension_to_files(files_in) == NovStart(files_in, TRUE)
remove_nov_extension_from_files(files_in) == NovStart(files_in, FALSE)

Pooling == fmt.op \in {"add_nov", "remove_nov"}

\* lines 172 and 217: executor.submit of the next file of files_to_process
Submit ==
    /\ Pooling /\ fmt.at = "submit"
    /\ \E i \in 1..Len(fmt.files_to_process) :
          /\ fmt.task[i] = "new"
          /\ \A j \in 1..(i - 1) : fmt.task[j] # "new"
          /\ fmt' = [fmt EXCEPT !.task[i] = "queued",
                                !.at = IF i = Len(fmt.files_to_process)
                                       THEN "collect" ELSE "submit"]
    /\ UNCHANGED <<engineVars, exceptFmt>>

\* lines 36-38: a worker takes the call and reads the time stamps
WorkerStat(i) ==
    /\ Pooling /\ i \in 1..Len(fmt.files_to_process)
    /\ fmt.task[i] = "queued"
    /\ fmt' = [fmt EXCEPT !.runs[i] = @ + 1,
                          !.task[i] = IF fmt.files_to_process[i] \in DOMAIN files
                                      THEN "stat" ELSE "done",
                          !.result[i] = FALSE]
    /\ UNCHANGED <<engineVars, exceptFmt>>

\* lines 42-43: os.rename
WorkerRename(i) ==
    /\ Pooling /\ i \in 1..Len(fmt.files_to_process)
    /\ fmt.task[i] = "stat"
    /\ \E src \in {fmt.files_to_process[i]} :
       \E dst \in {nov_path(src, fmt.add_nov)} :
          IF rename_raises(files, dirs, src, dst)
          THEN /\ fmt' = [fmt EXCEPT !.task[i] = "done", !.result[i] = FALSE]
               /\ files' = files
          ELSE /\ fmt' = [fmt EXCEPT !.task[i] = "renamed"]
               /\ files' = os_rename(files, src, dst)
    /\ UNCHANGED <<pc, tierVars, dirs, now, batchVars, exceptFmt>>

\* lines 46-49: os.utime of the new path, and the value returned
WorkerUtime(i) ==
    /\ Pooling /\ i \in 1..Len(fmt.files_to_process)
    /\ fmt.task[i] = "renamed"
    /\ fmt' = [fmt EXCEPT !.task[i] = "done",
                          !.result[i] = nov_path(fmt.files_to_process[i], fmt.add_nov)
                                            \in DOMAIN files]
    /\ UNCHANGED <<engineVars, exceptFmt>>

\* lines 175-181 and 220-226: as_completed yields a finished future that it
\* has not yielded yet; the with block ends after the last one
Collect(i) ==
    /\ Pooling /\ fmt.at = "collect"
    /\ i \in 1..Len(fmt.files_to_process)
    /\ fmt.task[i] = "done" /\ fmt.yielded[i] = 0
    /\ fmt' = [fmt EXCEPT !.yielded[i] = @ + 1,
                          !.success_count = IF fmt.result[i] THEN @ + 1 ELSE @,
                          !.error_files = IF fmt.result[i] THEN @
                                          ELSE Append(@, fmt.files_to_process[i]),
                          !.at = IF \A j \in 1..Len(fmt.files_to_process) :
                                      j # i => fmt.yielded[j] = 1
                                 THEN "returned" ELSE "collect"]
    /\ UNCHANGED <<engineVars, exceptFmt>>

(***************************************************************************)
(* engingv FolderRenamer (core/renamer.py).  A template is a sequence of   *)
(* pieces: a brace, the name of a placeholder, an illegal character or     *)
(* other text.                                                             *)
(***************************************************************************)
NoRen == [op |-> "none"]

\* the names of "{id}" and "{title}" among the valid placeholders
valid_placeholders == <<"id", "title">>
\* "/" and "<" among the illegal characters
invalid_chars == <<"<", "/">>
\* a name that is no placeholder, and plain text
TemplatePieces == {"{", "}", "id", "title", "zz", "a", "<", "/"}

Templates == SeqsUpTo(TemplatePieces, MaxTemplate)

\* placeholder in template
Contains(template, name) ==
    \E i \in 1..(Len(template) - 2) : SubSeq(template, i, i + 2) = <<"{", name, "}">>

\* re.findall(r"\{[^}]+\}", template) from position i on: the matches from
\* left to right, none of them overlapping another
RECURSIVE FindAll(_, _)
FindAll(template, i) ==
    IF i > Len(template) THEN <<>>
    ELSE LET ends == {j \in (i + 2)..Len(template) :
                        /\ template[j] = "}"
                        /\ \A k \in (i + 1)..(j - 1) : template[k] # "}"}
         IN  IF template[i] = "{" /\ ends # {}
             THEN <<SubSeq(template, i, CHOOSE j \in ends : TRUE)>>
                  \o FindAll(template, (CHOOSE j \in ends : TRUE) + 1)
             ELSE FindAll(template, i + 1)

IsValidPlaceholder(m) ==
    \E n \in 1..Len(valid_placeholders) : m = <<"{", valid_placeholders[n], "}">>

validate_template_noScan(template) ==
    LET Present(c) == \E i \in 1..Len(template) : template[i] = c
        Used(n) == Contains(template, n)
    IN  [c \in 1..Len(SelectSeq(invalid_chars, Present)) |->
            [issue |-> "illegal character", what |-> <<SelectSeq(invalid_chars, Present)[c]>>]]
        \o (IF SelectSeq(valid_placeholders, Used) = <<>>
            THEN <<[issue |-> "no placeholder", what |-> <<>>]>> ELSE <<>>)

\* FolderRenamer.validate_template (lines 126-152): the list of issues
validate_template(template) ==
    LET Present(c) == \E i \in 1..Len(template) : template[i] = c
        Used(n) == Contains(template, n)
        Unknown(m) == ~IsValidPlaceholder(m)
        unknown == SelectSeq(FindAll(template, 1), Unknown)
    IN  [c \in 1..Len(SelectSeq(invalid_chars, Present)) |->
            [issue |-> "illegal character", what |-> <<SelectSeq(invalid_chars, Present)[c]>>]]
        \o (IF SelectSeq(valid_placeholders, Used) = <<>>
            THEN <<[issue |-> "no placeholder", what |-> <<>>]>> ELSE <<>>)
        \o [m \in 1..Len(unknown) |-> [issue |-> "unknown placeholder", what |-> unknown[m]]]

\* renamer.validate_template(template)
ValidateTemplate(template) ==
    /\ ren' = [op |-> "validate", template |-> template,
               issues |-> validate_template(template)]
    /\ UNCHANGED <<engineVars, exceptRen>>

(***************************************************************************)
(* WallpaperFolder.generate_new_name (core/models.py lines 95-143) and     *)
(* FolderRenamer.rename_folders (core/renamer.py lines 23-115).  The names *)
(* of the model are shorter than the length limits.                        *)
(***************************************************************************)
WorkshopRoot == <<RootC, <<"w">>>>

WallpaperFolder(folder_name, workshop_id, title) ==
    [path |-> Append(WorkshopRoot, <<folder_name>>), folder_name |-> folder_name,
     workshop_id |-> workshop_id, title |-> title]

Wallpaper1 == WallpaperFolder("111", "111", "sea")
Wallpaper2 == WallpaperFolder("222", "222", "sea")
\* a wallpaper whose folder was removed after the scan
Wallpaper3 == WallpaperFolder("333", "333", "sky")

WallpaperLists ==
    {<<>>, <<Wallpaper1>>, <<Wallpaper1, Wallpaper2>>, <<Wallpaper2, Wallpaper1>>,
     <<Wallpaper3, Wallpaper1>>}

NameTemplates ==
    {<<"{", "title", "}">>, <<"{", "title", "}", "a", "{", "id", "}">>,
     <<"{", "id", "}">>, <<"{", "title", "}", "/", "{", "zz", "}">>}

\* lines 108-124: the placeholders replaced by their values, then every
\* illegal character by "_"
RECURSIVE generate_new_name(_, _)
generate_new_name(wallpaper, template) ==
    IF template = <<>> THEN <<>>
    ELSE IF Len(template) >= 3 /\ SubSeq(template, 1, 3) = <<"{", "id", "}">>
    THEN <<wallpaper.workshop_id>> \o generate_new_name(wallpaper, SubSeq(template, 4, Len(template)))
    ELSE IF Len(template) >= 3 /\ SubSeq(template, 1, 3) = <<"{", "title", "}">>
    THEN <<wallpaper.title>> \o generate_new_name(wallpaper, SubSeq(template, 4, Len(template)))
    ELSE <<IF \E c \in 1..Len(invalid_chars) : Head(template) = invalid_chars[c]
           THEN "_" ELSE Head(template)>>
         \o generate_new_name(wallpaper, Tail(template))

\* the folders and the file of the workshop directory
RenDirs(extra) ==
    {<<RootC>>, WorkshopRoot, Wallpaper1.path, Wallpaper2.path} \cup extra
RenFile == Append(WorkshopRoot, <<"note", ".txt">>)
RenFiles == (RenFile :> 1)

\* target_base_dir: none, a directory that is missing, one that exists and
\* the path of a regular file
RenTargets == {None, <<RootC, <<"out">>>>, WorkshopRoot, RenFile}

\* lines 62-72: new_name with the first counter that makes the path free
FreeName(fl, ds, parent, old_path, new_name) ==
    IF Exists(fl, ds, Append(parent, new_name)) /\ Append(parent, new_name) # old_path
    THEN LET free == {k \in 1..(Cardinality(ds) + Cardinality(DOMAIN fl) + 1) :
                        ~Exists(fl, ds, Append(parent, new_name \o <<"_">> \o Digits(k)))}
         IN  new_name \o <<"_">> \o Digits(CHOOSE k \in free : \A j \in free : k <= j)
    ELSE new_name

\* lines 45-112: one wallpaper; the record and the directories after it
rename_one(fl, ds, wallpaper, name_template, target_base_dir, dry_run) ==
    LET old_path == wallpaper.path
        mkdirFails == target_base_dir # None /\ MakeDirsRaises(fl, target_base_dir, "none")
        ds1 == IF target_base_dir # None /\ ~mkdirFails
               THEN MakeDirs(ds, target_base_dir) ELSE ds
        parent == IF target_base_dir # None THEN target_base_dir ELSE dirname(old_path)
        new_name == FreeName(fl, ds1, parent, old_path,
                             generate_new_name(wallpaper, name_template))
        new_path == Append(parent, new_name)
        error == [workshop_id |-> wallpaper.workshop_id, old_path |-> old_path,
                  new_path |-> <<>>, new_name |-> <<>>, status |-> "error"]
        record == [workshop_id |-> wallpaper.workshop_id, old_path |-> old_path,
                   new_path |-> new_path, new_name |-> new_name, status |-> "planned"]
    IN  IF mkdirFails THEN [record |-> error, dirs |-> ds]
        ELSE IF dry_run THEN [record |-> record, dirs |-> ds1]
        ELSE IF old_path \notin ds1 THEN [record |-> error, dirs |-> ds1]
        ELSE IF target_base_dir # None
        THEN [record |-> [record EXCEPT !.status = "copied"], dirs |-> ds1 \cup {new_path}]
        ELSE [record |-> [record EXCEPT !.status = "renamed"],
              dirs |-> (ds1 \ {old_path}) \cup {new_path}]

\* lines 44-115: the wallpapers one after the other
RECURSIVE rename_folders(_, _, _, _, _, _)
rename_folders(fl, ds, wallpapers, name_template, target_base_dir, dry_run) ==
    IF wallpapers = <<>> THEN [results |-> <<>>, dirs |-> ds]
    ELSE \* the wallpapers before the last one, then the last one
         LET before == rename_folders(fl, ds, SubSeq(wallpapers, 1, Len(wallpapers) - 1),
                                      name_template, target_base_dir, dry_run)
             last == rename_one(fl, before.dirs, wallpapers[Len(wallpapers)], name_template,
                                target_base_dir, dry_run)
         IN  [results |-> Append(before.results, last.record), dirs |-> last.dirs]

\* FolderRenamer(dry_run).rename_folders(wallpapers, name_template, target_base_dir)
RenameFolders(wallpapers, name_template, target_base_dir, dry_run) ==
    /\ \E r \in {rename_folders(files, dirs, wallpapers, name_template, target_base_dir,
                                 dry_run)} :
          /\ ren' = [op |-> "rename", dry_run |-> dry_run, wallpapers |-> wallpapers,
                     target_base_dir |-> target_base_dir, results |-> r.results]
          /\ dirs' = r.dirs
    /\ UNCHANGED <<pc, tierVars, files, now, batchVars, exceptRen>>

InitWith(fl, ds) ==
    /\ pc = "new"
    /\ bitrate_step = IntStep(DEFAULT_BITRATE_STEP)
    /\ max_steps = DEFAULT_BITRATE_LEVELS
    /\ bitrate_levels = <<>>
    /\ lastBitrate = -1
    /\ lastLevel = <<>>
    /\ files = fl
    /\ dirs = ds
    /\ now = 0
    /\ mode = "none"
    /\ source_dir = <<>>
    /\ target_dir = <<>>
    /\ is_move = FALSE
    /\ video_files = {}
    /\ videos = <<>>
    /\ completed = 0
    /\ total_files = 0
    /\ results = <<>>
    /\ stats = ProcessStats
    /\ ret = NoReturn
    /\ written = [logs |-> 0, reports |-> 0]
    /\ lastOp = NoOp
    /\ startFiles = fl
    /\ begun = Begun(FALSE, FALSE, FALSE)
    /\ calls = 0
    /\ faults = 0
    /\ probe = NoProbe
    /\ listing = NoListing
    /\ fmt = NoFmt
    /\ ren = NoRen

InitEngine == InitWith(InitFiles, InitDirs)

Init == InitEngine /\ call \in Calls /\ cli = NoCli

\* the tier functions on their own: the engine is not called
TierInit ==
    /\ InitEngine
    /\ call = [mode |-> "none", source_dir |-> <<>>, target_dir |-> <<>>, is_move |-> FALSE,
               recursive |-> FALSE, report |-> <<>>]
    /\ cli = NoCli

TierNext ==
    \/ \E cfg \in TierConfigs : Construct(cfg)
    \/ \E b \in BitrateSamples(bitrate_levels) : GetVideoBitrateLevel(b)

SpecTier == TierInit /\ [][TierNext]_vars

\* configurations the engine is run with: the default one, a fractional step
\* and one without any finite level
EngineConfigs ==
    {[step |-> IntStep(DEFAULT_BITRATE_STEP), levels |-> DEFAULT_BITRATE_LEVELS],
     [step |-> IntStep(DEFAULT_BITRATE_STEP), levels |-> 0]}

Next ==
    \/ \E cfg \in EngineConfigs : pc = "new" /\ Construct(cfg)
    \/ /\ call.mode = "A"
       /\ calls < MaxCalls
       /\ StartScan(call.source_dir, call.target_dir, call.is_move, call.recursive)
    \/ \E p \in video_files, fault \in Faults : ScanStep(p, fault)
    \/ \E json_report \in BOOLEAN : ScanFinish(json_report)
    \/ /\ call.mode = "B"
       /\ calls < MaxCalls
       /\ StartReport(call.report[1], call.is_move)
    \/ \E fault \in Faults : ReportStep(fault)
    \/ ReportFinish
    \/ Tick

Spec == Init /\ [][Next]_vars

\* the package run as a program
CliInit ==
    /\ InitEngine
    /\ call = [mode |-> "none", source_dir |-> <<>>, target_dir |-> <<>>, is_move |-> FALSE,
               recursive |-> FALSE, report |-> <<>>]
    /\ \E args \in CliArgs : cli = [NoCli EXCEPT !.stage = "import", !.args = args]

CliNext ==
    \/ DefMain380
    \/ DefMain442
    \/ \E raised, interrupt \in BOOLEAN : SysExitMain(raised, interrupt)

SpecCli == CliInit /\ [][CliNext]_vars

\* no batch call is made
NoCall ==
    [mode |-> "none", source_dir |-> <<>>, target_dir |-> <<>>, is_move |-> FALSE,
     recursive |-> FALSE, report |-> <<>>]

\* the renamer checking templates
TemplateNext ==
    /\ ren.op = "none"
    /\ \E template \in Templates : ValidateTemplate(template)

SpecTemplate == TierInit /\ [][TemplateNext]_vars

\* the renamer renaming the folders of a workshop directory
RenInit ==
    /\ \E extra \in SUBSET {Append(WorkshopRoot, <<"sea">>), Append(WorkshopRoot, <<"sea", "_", "1">>)} :
          InitWith(RenFiles, RenDirs(extra))
    /\ call = NoCall
    /\ cli = NoCli

RenNext ==
    /\ ren.op = "none"
    /\ \E wallpapers \in WallpaperLists, name_template \in NameTemplates,
          target_base_dir \in RenTargets, dry_run \in BOOLEAN :
            RenameFolders(wallpapers, name_template, target_base_dir, dry_run)

SpecRename == RenInit /\ [][RenNext]_vars

\* formatv adding and removing the .nov suffix
PoolInit ==
    /\ \E paths \in SUBSET PoolPaths : InitWith(PoolFiles(paths), FmtDirs)
    /\ call = NoCall
    /\ cli = NoCli

PoolNext ==
    \/ /\ fmt.op = "none"
       /\ \E files_in \in PoolInputs : add_nov_extension_to_files(files_in)
    \/ /\ fmt.op = "none"
       /\ \E files_in \in PoolInputs : remove_nov_extension_from_files(files_in)
    \/ Submit
    \/ \E i \in 1..3 : WorkerStat(i)
    \/ \E i \in 1..3 : WorkerRename(i)
    \/ \E i \in 1..3 : WorkerUtime(i)
    \/ \E i \in 1..3 : Collect(i)

SpecPool == PoolInit /\ [][PoolNext]_vars

\* formatv scanning a directory
FmtInit ==
    /\ \E names \in SUBSET FmtNames : InitWith(FmtFiles(names), FmtDirs)
    /\ call = NoCall
    /\ cli = NoCli

FmtNext ==
    \/ \E directory \in {SourceRoot, <<RootC, <<"a">>, <<"gone">>>>} : FindVideoFiles(directory)
    \/ \E prefix_name \in {"hb", "x265"} : CheckAndSaveDuplicates(prefix_name)

SpecFmt == FmtInit /\ [][FmtNext]_vars

\* the analyzer listing folders
FindInit ==
    /\ \E es \in SUBSET FindEntries : InitWith(FindFiles(es), FindDirs(es))
    /\ call = NoCall
    /\ cli = NoCli

FindNext == \E folder_path \in FindRoots, recursive \in BOOLEAN :
                FindVideosInFolder(folder_path, recursive)

SpecFind == FindInit /\ [][FindNext]_vars

\* the analyzer probing files
ProbeNext == \E video_path \in ProbePaths, m \in ProbeMedia : AnalyzeVideo(video_path, m)

SpecProbe == TierInit /\ [][ProbeNext]_vars

(***************************************************************************)
(* Tier table and tier lookup.                                             *)
(***************************************************************************)
ThresholdOf(levels, name) ==
    levels[CHOOSE j \in 1..Len(levels) : levels[j].name = name].threshold

Called == pc = "idle" /\ lastBitrate >= 0

\* C1: for every bitrate >= 0 and every table built by create_bitrate_levels,
\* get_bitrate_level returns exactly one label of the table, and the bound of
\* that label is the smallest bound of the table that is >= the bitrate; a
\* bitrate equal to a finite bound therefore resolves to that bound's own
\* level and not to the next one.
C1_SmallestBound ==
    Called =>
        /\ Cardinality({j \in 1..Len(bitrate_levels) : bitrate_levels[j].name = lastLevel}) = 1
        /\ ThresholdOf(bitrate_levels, lastLevel) >= lastBitrate
        /\ \A t \in Thresholds(bitrate_levels) :
              t >= lastBitrate => ThresholdOf(bitrate_levels, lastLevel) <= t
        /\ lastBitrate \in Thresholds(bitrate_levels)
              => ThresholdOf(bitrate_levels, lastLevel) = lastBitrate

\* a lookup of a bitrate equal to a finite bound below which and above which
\* the table has other levels
C1_Witness ==
    /\ Called
    /\ lastBitrate \in Thresholds(bitrate_levels) \ {inf}
    /\ \E t \in Thresholds(bitrate_levels) \ {inf} : t > lastBitrate
    /\ \E t \in Thresholds(bitrate_levels) : t < lastBitrate /\ t > 0
    /\ ThresholdOf(bitrate_levels, lastLevel) = lastBitrate

\* C2: for every step > 0, integer or fractional, and every max_steps >= 1 the
\* table has exactly max_steps finite entries with pairwise distinct labels,
\* the i-th bound being i * step * 1,000,000 bits/s, followed by exactly one
\* entry with the infinite bound.
C2_TableShape ==
    (pc = "idle" /\ ValidConfig(bitrate_step, max_steps)) =>
        /\ Len(bitrate_levels) = max_steps + 1
        /\ \A i \in 1..max_steps :
              i <= Len(bitrate_levels)
                => bitrate_levels[i].threshold = i * bitrate_step.halves * 500000
        /\ \A i, j \in 1..Len(bitrate_levels) :
              i # j => bitrate_levels[i].name # bitrate_levels[j].name
        /\ bitrate_levels[Len(bitrate_levels)].threshold = inf
        /\ \A i \in 1..(Len(bitrate_levels) - 1) : bitrate_levels[i].threshold < inf

\* C3: building a table, or constructing a VideoAnalyzer, with step <= 0 or
\* max_steps < 1 fails instead of yielding a table, so that no analyzer
\* exists with such a configuration.
C3_InvalidConfigurationRejected ==
    pc # "new" => ValidConfig(bitrate_step, max_steps)
(***************************************************************************)
(* Batches.                                                                *)
(***************************************************************************)
Successes(res) == {i \in 1..Len(res) : res[i].success}
Failures(res) == {i \in 1..Len(res) : ~res[i].success}

\* the tier directory of an outcome: targetDir/<tierLabel>
TierDir(target, level) == Append(Resolve(target), level)

\* C4: in a Mode A batch over n files of which k fail probing and none hits a
\* file system error, every file gets exactly one outcome, every good file is
\* placed inside the tier directory that get_bitrate_level resolves for its
\* bitrate, and the report has successful_operations = n - k and
\* failed_operations = k.
C4_ScanBatch ==
    (pc = "idle" /\ mode = "A" /\ ret.kind = "report"
        /\ \A i \in Failures(ret.results) : ret.results[i].error_message = MsgNoInfo)
    =>  /\ Len(ret.results) = ret.total_files
        /\ \A i, j \in 1..Len(ret.results) :
              i # j => ret.results[i].source_path # ret.results[j].source_path
        /\ \A i \in Successes(ret.results) :
              /\ ret.results[i].bitrate_level
                    = get_bitrate_level(ret.results[i].video_info[1].bitrate, bitrate_levels)
              /\ IsPrefix(TierDir(ret.target_dir, ret.results[i].bitrate_level),
                          Resolve(ret.results[i].target_path))
        /\ ret.stats.successful_operations = Cardinality(Successes(ret.results))
        /\ ret.stats.failed_operations = Cardinality(Failures(ret.results))
        /\ ret.stats.successful_operations + ret.stats.failed_operations = ret.total_files

\* the record of the last step of a replay met a failure of its own: the
\* system refused a mkdir, a move or a copy, or the probe gave no metadata
RecordFailed ==
    \/ lastOp.fault # "none"
    \/ lastOp.probed /\ lastOp.level = <<>>

\* C5: in Mode B every per-file failure (creating the destination directory,
\* probing, moving, copying) becomes exactly one failed outcome of that
\* record, and the batch goes on: it is never cut short.
C5_ReplayFailureRecorded ==
    (mode = "B" /\ lastOp.kind \in {"aborted", "failed", "placed"} /\ RecordFailed)
    =>  /\ lastOp.kind = "failed"
        /\ ret.kind # "failure"
        /\ results # <<>>
        /\ ~results[Len(results)].success
        /\ results[Len(results)].source_path = lastOp.source

\* C6: a classified file whose parent directory is nested under sourceDir
\* goes (before any collision suffix) to
\* targetDir/<label>/<parent relative to sourceDir>/<filename>.
C6_RelativeToSource ==
    (lastOp.kind = "placed" /\ lastOp.level # <<>>
        /\ IsPrefix(Resolve(lastOp.base), dirname(lastOp.source)))
    =>  Resolve(lastOp.plain)
          = Resolve(Append(Join3(lastOp.target, lastOp.level,
                                 relpath(dirname(lastOp.source), lastOp.base).rel),
                           basename(lastOp.source)))

\* C7: the destination of a successful outcome lies inside
\* targetDir/<tierLabel>/; a file whose directory is not nested under the
\* base of the relative path is flattened to targetDir/<label>/<filename>.
C7_InsideTierDir ==
    (lastOp.kind = "placed" /\ lastOp.level # <<>>)
    =>  /\ IsPrefix(TierDir(lastOp.target, lastOp.level), Resolve(lastOp.dest))
        /\ ~IsPrefix(dirname(Resolve(lastOp.target)), dirname(lastOp.source))
              => dirname(Resolve(lastOp.dest)) = TierDir(lastOp.target, lastOp.level)

\* C8: a successful outcome has a destination path and a tier label; a failed
\* one has neither and has an error message.
C8_OutcomeShape ==
    \A i \in 1..Len(results) :
        IF results[i].success
        THEN results[i].target_path # <<>> /\ results[i].bitrate_level # <<>>
        ELSE /\ results[i].target_path = <<>>
             /\ results[i].bitrate_level = <<>>
             /\ results[i].error_message # <<>>

\* C9: when the destination path of a file is taken, the file is written to
\* name_<timestamp>.ext next to it, the file already at name.ext keeps its
\* content, and both are on disk afterwards.
C9_CollisionSuffix ==
    (lastOp.kind = "placed" /\ lastOp.collided)
    =>  LET name == basename(lastOp.source)
        IN  /\ \E t \in 0..now :
                  lastOp.dest
                    = Append(dirname(lastOp.plain),
                             SubSeq(name, 1, Len(name) - 1) \o <<"_">> \o Digits(t)
                                \o <<name[Len(name)]>>)
            /\ Resolve(lastOp.dest) # Resolve(lastOp.plain)
            /\ ContentAt(files, lastOp.plain) = lastOp.occupant
            /\ Exists(files, dirs, lastOp.plain)
            /\ ContentAt(files, lastOp.dest) = lastOp.content

\* a file classified onto the path where another file, of other content, was
\* put or left before
C9_Witness ==
    /\ lastOp.kind = "placed"
    /\ lastOp.collided
    /\ lastOp.occupant # 0
    /\ lastOp.occupant # lastOp.content
    /\ \E i \in 1..(Len(results) - 1) : results[i].target_path = lastOp.plain

\* C10 as stated: a second move-mode run on the same report records nothing
\* and moves nothing, whatever the report holds (here even granted that the
\* first run ended without a failed outcome and the system refused nothing).
C10_SecondRunIdle ==
    (mode = "B" /\ is_move /\ begun.again /\ begun.clean /\ faults = 0)
    =>  results = <<>> /\ files = startFiles

\* C10 amended: a second move-mode run on the same report that finds every
\* record's path missing when it starts skips all records, records no
\* outcome and moves or copies nothing.
C10_SecondRunSkipsMissing ==
    (mode = "B" /\ is_move /\ begun.again /\ begun.allMissing)
    =>  /\ results = <<>>
        /\ files = startFiles
        /\ lastOp.kind \in {"none", "skipped"}
        /\ stats.successful_operations + stats.failed_operations = 0
        /\ ret.kind = "report" => ret.results = <<>>

\* the second run of a report whose files the first run has moved is over
C10_Witness ==
    /\ mode = "B" /\ is_move /\ begun.again /\ begun.allMissing
    /\ pc = "idle" /\ ret.kind = "report"
    /\ completed = Len(videos) /\ Len(videos) >= 2
    /\ startFiles # InitFiles

(***************************************************************************)
(* Replay of a report (Mode B), record by record.                          *)
(***************************************************************************)
\* it is the turn of a record whose path is empty or names nothing on disk
SkipTurn ==
    /\ pc = "report"
    /\ completed < Len(videos)
    /\ \/ videos[completed + 1].path = <<>>
       \/ Resolve(videos[completed + 1].path) \notin (DOMAIN files \cup dirs)

\* C11: in classify_from_json_report a record whose path is empty or missing
\* when its turn comes is skipped: results and both counts stay as they are,
\* no directory is created and no file changes, the progress counter advances
\* by one; and when the loop is over the progress counter equals the number
\* of records of the report.
C11_SkipAdvances ==
    [][ /\ (SkipTurn /\ now' = now)
            => /\ results' = results
               /\ stats' = stats
               /\ dirs' = dirs
               /\ files' = files
               /\ completed' = completed + 1
        /\ (pc = "report" /\ pc' = "idle" /\ ret'.kind = "report")
            => /\ completed' = Len(videos')
               /\ total_files' = Len(videos') ]_vars

\* a replay is over whose second record named a file the first record's move
\* had taken away
C11_Witness ==
    /\ mode = "B" /\ pc = "idle" /\ ret.kind = "report"
    /\ lastOp.kind = "skipped" /\ lastOp.source # <<>>
    /\ completed = 2 /\ Len(videos) = 2 /\ Len(results) = 1

\* the record the last step of the replay handled
LastRecord == videos[IF lastOp.kind = "aborted" THEN completed + 1 ELSE completed]

\* what the probe reads from the file the last step handled
LastProbe == analyze_video(lastOp.source :> lastOp.content, {}, lastOp.source)

\* C12: in classify_from_json_report a record that carries a level is placed
\* under that level and recorded with it, whatever table the engine has, and
\* is not probed; a record without a level is probed and, when the probe
\* gives metadata, gets the level get_bitrate_level resolves for the probed
\* bitrate.
C12_LabelReused ==
    (mode = "B" /\ lastOp.kind \in {"placed", "failed", "aborted"})
    =>  IF LastRecord.bitrate_level # <<>>
        THEN /\ ~lastOp.probed
             /\ lastOp.level = LastRecord.bitrate_level
             /\ lastOp.plain
                  = PlainDest(DestDir(lastOp.source, lastOp.target, LastRecord.bitrate_level),
                              lastOp.source)
             /\ IsPrefix(TierDir(lastOp.target, LastRecord.bitrate_level),
                         Resolve(lastOp.plain))
             /\ lastOp.kind = "placed"
                  => /\ results[Len(results)].bitrate_level = LastRecord.bitrate_level
                     /\ dirname(lastOp.dest) = dirname(lastOp.plain)
        ELSE /\ lastOp.probed
             /\ LastProbe # None
                  => /\ lastOp.level = get_bitrate_level(LastProbe[1].bitrate, bitrate_levels)
                     /\ lastOp.kind = "placed"
                          => results[Len(results)].bitrate_level = lastOp.level

\* a record labelled 05MB is placed under 05MB by an engine whose table would
\* resolve the file's bitrate to another level
C12_Witness ==
    /\ mode = "B" /\ lastOp.kind = "placed" /\ ~lastOp.probed
    /\ LastRecord.bitrate_level = Label05
    /\ LastProbe # None
    /\ get_bitrate_level(LastProbe[1].bitrate, bitrate_levels) # Label05
    /\ results[Len(results)].bitrate_level = Label05

\* the report about to be replayed declares no source directory, or one that
\* is not on disk
SourceDirGone ==
    /\ pc = "idle"
    /\ call.mode = "B"
    /\ ~call.report[1].malformed
    /\ \/ call.report[1].folder_path = <<>>
       \/ Resolve(call.report[1].folder_path) \notin (DOMAIN files \cup dirs)

\* C13: when the source directory declared in the report is absent or not on
\* disk, classify_from_json_report returns the source-directory failure and
\* has touched nothing: no file moved or copied, no directory created, no
\* outcome recorded, no log and no replay report written.
C13_SourceDirMissing ==
    [][ (SourceDirGone /\ now' = now)
            => /\ ret' = Failure(MsgNoSourceDir)
               /\ pc' = "idle"
               /\ files' = files
               /\ dirs' = dirs
               /\ written' = written
               /\ results' = <<>>
               /\ stats' = stats ]_vars

\* the replay of a report whose source directory is not on disk has returned
C13_Witness ==
    /\ mode = "B" /\ pc = "idle" /\ calls >= 1
    /\ call.report[1].folder_path = GoneDir
    /\ call.report[1].videos # <<>>
    /\ ret = Failure(MsgNoSourceDir)
    /\ files = InitFiles /\ dirs = InitDirs /\ written = [logs |-> 0, reports |-> 0]

(***************************************************************************)
(* VideoInfo through a report and back.                                    *)
(***************************************************************************)
\* C14: a VideoInfo serialised with to_dict (the "info" of a report record)
\* and rebuilt with from_dict has the bitrate_mbps, the size_mb and the
\* resolution of the original, at the rounded precision to_dict persists.
\* Checked on the VideoInfo a replay rebuilds from each record it places.
C14_RoundTrip ==
    \A i \in 1..Len(results), j \in 1..Len(videos) :
        (mode = "B" /\ results[i].success /\ results[i].video_info # None
            /\ videos[j].path = results[i].source_path /\ videos[j].info # None)
        =>  LET back == VideoInfo_to_dict(results[i].video_info[1])
                data == videos[j].info[1]
            IN  /\ back.width = data.width
                /\ back.height = data.height
                /\ back.bitrate_mbps = data.bitrate_mbps
                /\ back.size_mb = data.size_mb

(***************************************************************************)
(* The statistics collector.                                               *)
(***************************************************************************)
\* the outcomes of the batch that count for size and duration
WithInfo(res) == {i \in Successes(res) : res[i].video_info # None}

RECURSIVE SizeSum(_, _)
SizeSum(res, I) ==
    IF I = {} THEN 0
    ELSE LET i == CHOOSE k \in I : TRUE
         IN  res[i].video_info[1].size_bytes + SizeSum(res, I \ {i})

RECURSIVE DurationSum(_, _)
DurationSum(res, I) ==
    IF I = {} THEN 0
    ELSE LET i == CHOOSE k \in I : TRUE
         IN  res[i].video_info[1].duration + DurationSum(res, I \ {i})

RECURSIVE GroupedCount(_)
GroupedCount(groups) ==
    IF groups = <<>> THEN 0 ELSE Len(Head(groups).results) + GroupedCount(Tail(groups))

\* a batch is in its loop, or has left it
BatchBegun ==
    \/ pc \in {"scan", "report"}
    \/ pc = "idle" /\ (ret.kind = "report" \/ lastOp.kind = "aborted")

\* C15: at every point of a batch of either mode the collector holds the
\* outcomes of this batch and of no earlier one: successes + failures is the
\* number of add_result calls, total_size_bytes and total_duration are the
\* sums over the successful outcomes that carry a VideoInfo, failed outcomes
\* count as failures only, and the report returns these numbers.
C15_StatsOfThisBatch ==
    BatchBegun
    =>  /\ stats.successful_operations + stats.failed_operations = Len(results)
        /\ stats.successful_operations = Cardinality(Successes(results))
        /\ stats.failed_operations = Cardinality(Failures(results))
        /\ stats.total_size_bytes = SizeSum(results, WithInfo(results))
        /\ stats.total_duration = DurationSum(results, WithInfo(results))
        /\ GroupedCount(stats.results_by_level)
              = Cardinality({i \in Successes(results) : results[i].bitrate_level # <<>>})
        /\ (pc = "idle" /\ ret.kind = "report")
              => /\ ret.stats.successful_operations = stats.successful_operations
                 /\ ret.stats.failed_operations = stats.failed_operations
                 /\ ret.stats.total_size_bytes = stats.total_size_bytes
                 /\ ret.stats.total_duration = stats.total_duration

\* the second batch run on one engine has returned, with successes of
\* non-zero size and a failure, after a first batch that had outcomes too
C15_Witness ==
    /\ mode = "A" /\ begun.again /\ pc = "idle" /\ ret.kind = "report"
    /\ stats.successful_operations >= 1
    /\ stats.failed_operations >= 1
    /\ stats.total_size_bytes > 0
    /\ stats.total_duration > 0

(***************************************************************************)
(* Exit code of the command line.                                          *)
(***************************************************************************)
\* the arguments name a structural error: a source directory that is not
\* there, a report that cannot be read or whose source directory is gone, a
\* tier configuration with step <= 0 or no level
Fatal(args) ==
    CASE args.command \in {"analyze", "classify"} ->
            \/ ~IsDir(InitDirs, args.path)
            \/ ~ValidConfig(args.config.step, args.config.levels)
      [] args.command = "report" ->
            \/ args.report.malformed
            \/ args.report.folder_path = <<>>
            \/ ~Exists(InitFiles, InitDirs, args.report.folder_path)
      [] OTHER -> FALSE

\* C16: the entry point dispatches the subcommand it is given, exits with 0
\* when the run completes and with a non-zero code on a structural error or
\* when the user interrupts.
C16_ExitCodes ==
    cli.stage = "exited"
    =>  /\ cli.args.command # "none" => cli.dispatched = cli.args.command
        /\ (Fatal(cli.args) \/ cli.interrupted) => cli.exit_code # 0
        /\ (~Fatal(cli.args) /\ ~cli.interrupted) => cli.exit_code = 0

(***************************************************************************)
(* Label format of the finite levels.                                      *)
(***************************************************************************)
\* C17: the finite labels are the cumulative megabit value i * step, padded
\* with zeros to the width of the largest finite label and followed by "MB";
\* for step 5 and 10 levels they are exactly 05MB, 10MB, ..., 50MB followed by
\* one overflow label, whether the step is the integer 5 or the float 5.0 that
\* --step and the interactive prompt produce.
C17_LabelFormat ==
    (pc = "idle" /\ ValidConfig(bitrate_step, max_steps) /\ bitrate_step.halves % 2 = 0)
    =>  /\ \A i \in 1..max_steps :
              bitrate_levels[i].name
                  = zfill(StrInt(i * (bitrate_step.halves \div 2)),
                          Len(StrInt(max_steps * (bitrate_step.halves \div 2))))
                    \o <<"M", "B">>
        /\ (bitrate_step.halves = 2 * DEFAULT_BITRATE_STEP
                /\ max_steps = DEFAULT_BITRATE_LEVELS)
              => /\ Len(bitrate_levels) = DEFAULT_BITRATE_LEVELS + 1
                 /\ SubSeq(bitrate_levels, 1, DEFAULT_BITRATE_LEVELS)
                        = [i \in 1..DEFAULT_BITRATE_LEVELS |->
                             [name |-> zfill(StrInt(i * DEFAULT_BITRATE_STEP), 2) \o <<"M", "B">>,
                              threshold |-> LevelThreshold(bitrate_step, i)]]
                 /\ bitrate_levels[Len(bitrate_levels)].name = OverflowName

(***************************************************************************)
(* ProcessResult.to_dict (common_utils.py lines 156-172).  The model keeps *)
(* the outcomes of a batch as ProcessResult objects; the "results" list of *)
(* a report is their to_dict, appended at lines 219 and 392.  The          *)
(* timestamp of an outcome is not kept by the model.                       *)
(***************************************************************************)
Truth_always(text) == TRUE

\* bool(text) of a str: the empty string is false
Truth(text) == text # <<>>

ProcessResult_to_dict(result) ==
    [success |-> result.success, source_path |-> result.source_path,
     target_path |-> result.target_path, bitrate_level |-> result.bitrate_level]
    @@ (IF result.video_info # None
        THEN "video_info" :> VideoInfo_to_dict(result.video_info[1])
        ELSE <<>>)
    @@ (IF Truth(result.error_message)
        THEN "error_message" :> result.error_message
        ELSE <<>>)

\* C18: in the results of a batch of either mode, a serialised outcome has the
\* error_message key if and only if its success field is false; a successful
\* outcome has no such key, not even one holding the empty string.
C18_ErrorKeyIffFailed ==
    \A i \in 1..Len(results) :
        \E d \in {ProcessResult_to_dict(results[i])} :
            /\ ("error_message" \in DOMAIN d) <=> ~d.success
            /\ "error_message" \in DOMAIN d => d.error_message # <<>>

\* a report that holds a failed outcome after a successful one
C18_Witness ==
    /\ pc = "idle" /\ ret.kind = "report" /\ Len(ret.results) >= 2
    /\ ret.results = results
    /\ \E i, j \in 1..Len(results) :
          /\ i < j
          /\ results[i].success /\ ~results[j].success
          /\ "error_message" \in DOMAIN ProcessResult_to_dict(results[j])
          /\ "error_message" \notin DOMAIN ProcessResult_to_dict(results[i])

\* C19: every VideoInfo that analyze_video produces has bitrate =
\* size_bytes * 8 / duration when duration > 0 and bitrate = 0 otherwise, for
\* every file size, frame count and frame rate reported, zero and negative
\* ones included; neither its bitrate nor its duration is negative.
C19_ProbeArithmetic ==
    probe.info # None
    =>  \E info \in {probe.info[1]} :
            /\ info.duration > 0
                  => info.bitrate * info.duration = info.size_bytes * 8
            /\ info.duration <= 0 => info.bitrate = 0
            /\ info.bitrate >= 0
            /\ info.duration >= 0

(***************************************************************************)
(* One file at a time.  Both loops (video_processor.py lines 207-226 and   *)
(* 321-399) are plain for loops run by the only thread of the program: an  *)
(* iteration ends before the next one starts, so a step of the model is    *)
(* one whole iteration.                                                    *)
(***************************************************************************)
\* the paths at which two file maps differ
Changed(fl1, fl2) ==
    {p \in DOMAIN fl1 \cup DOMAIN fl2 :
        \/ p \notin DOMAIN fl1 \cap DOMAIN fl2
        \/ fl1[p] # fl2[p]}

Operations(st) == st.successful_operations + st.failed_operations

\* C20: during a batch of either mode, the destination check, name choice,
\* move or copy and outcome recording of one file are complete before those
\* of the next file begin: a step mutates the paths of one file only and
\* leaves its move or copy finished or failed, records at most one outcome,
\* for that file and after the earlier ones, and passes exactly that outcome
\* to add_result, so that the collector has counted every recorded outcome
\* once.
C20_OneFileAtATime ==
    [][ /\ Changed(files, files') # {}
            => /\ pc \in {"scan", "report"}
               /\ lastOp'.kind \in {"placed", "failed"}
               /\ Changed(files, files') \subseteq {Resolve(lastOp'.source), Resolve(lastOp'.dest)}
               /\ lastOp'.kind = "placed"
                     => /\ Resolve(lastOp'.dest) \in DOMAIN files'
                        /\ files'[Resolve(lastOp'.dest)] = lastOp'.content
                        /\ (Resolve(lastOp'.source) \in DOMAIN files') <=> ~is_move
        /\ (pc \in {"scan", "report"} /\ results' # results)
            => /\ Len(results') = Len(results) + 1
               /\ SubSeq(results', 1, Len(results)) = results
               /\ results'[Len(results')].source_path = lastOp'.source
               /\ completed' = completed + 1
               /\ Operations(stats') = Operations(stats) + 1
        /\ (pc \in {"scan", "report"} /\ pc' = pc)
            => Operations(stats') = Len(results') ]_vars

\* the second file of a moving batch has just been placed, after the first
\* one was placed and recorded
C20_Witness ==
    /\ pc \in {"scan", "report"} /\ is_move
    /\ lastOp.kind = "placed"
    /\ Len(results) = 2
    /\ results[1].success /\ results[2].success
    /\ results[1].source_path # results[2].source_path
    /\ results[2].source_path = lastOp.source
    /\ Resolve(lastOp.source) \notin DOMAIN files
    /\ Resolve(lastOp.dest) \in DOMAIN files
    /\ Resolve(results[1].target_path) \in DOMAIN files
    /\ Operations(stats) = 2

\* the regular files at or below (recursive) or directly in (not recursive)
\* the directory root whose lower-cased extension is a video extension
VideosUnder(fl, root, recursive) ==
    {p \in DOMAIN fl :
        /\ fl[p] # Special
        /\ \E ext \in {splitext(basename(p))[2]} :
              ext # <<>> /\ Lower(ext[1]) \in VIDEO_FILE_TYPES
        /\ IF recursive THEN IsPrefix(root, dirname(p)) ELSE dirname(p) = root}

\* C21: find_videos_in_folder(root, recursive) returns exactly the regular
\* files whose lower-cased extension is in the allow-list, from all levels
\* under root when recursive and from the direct children of root only
\* otherwise; when root does not exist or is not a directory it returns the
\* empty list.
C21_ListsRegularVideoFiles ==
    listing.folder_path # <<>>
    =>  listing.result
            = IF Resolve(listing.folder_path) \in dirs
              THEN VideosUnder(files, Resolve(listing.folder_path), listing.recursive)
              ELSE {}

\* the files the last scan went over
Scanned == Walked(files, dirs, fmt.directory)

\* C23: find_video_files puts every file whose name starts with a configured
\* prefix into prefixed_files[<prefix name>] whatever its extension, puts into
\* normal_files only files without prefix that have a video extension, puts
\* each scanned file into at most one of nov_files, normal_files and the
\* prefixed lists, and puts files that match none (doc.txt) nowhere.
C23_ScanPartition ==
    fmt.op = "scan"
    =>  \E res \in {fmt.scan[1]} :
            /\ \A p \in Scanned :
                  \A i \in 1..Len(get_prefix_list) :
                      StartsWith(basename(p), get_prefix_list[i].prefix)
                          => p \in res.prefixed_files[get_prefix_list[i].name]
            /\ \A p \in res.normal_files :
                  /\ p \in Scanned
                  /\ \A i \in 1..Len(get_prefix_list) :
                        ~StartsWith(basename(p), get_prefix_list[i].prefix)
                  /\ Lower(basename(p)[Len(basename(p))]) \in get_video_extensions
            /\ \A p \in Scanned :
                  Cardinality({l \in {"nov", "normal"} \cup PrefixNames :
                                 p \in (IF l = "nov" THEN res.nov_files
                                        ELSE IF l = "normal" THEN res.normal_files
                                        ELSE res.prefixed_files[l])}) <= 1
            /\ \A p \in Scanned :
                  basename(p) = <<"doc", ".txt">>
                      => /\ p \notin res.nov_files \cup res.normal_files
                         /\ \A n \in PrefixNames : p \notin res.prefixed_files[n]

\* the pairs of a scan: a file with the prefix and a file without it, in the
\* same directory, whose names without prefix and extension are equal
PairsOf(scan, prefix_name) ==
    {<<p, o>> \in scan.prefixed_files[prefix_name] \X scan.normal_files :
        /\ dirname(p) = dirname(o)
        /\ Stem(Tail(basename(p))) = Stem(basename(o))}

\* C22: check_and_save_duplicates returns a result whose 'pairs' has one
\* entry for every prefixed file that has a counterpart without prefix of the
\* same base name (extension ignored) in the same directory, and whose
\* 'prefixed_larger' lists exactly the pairs in which the prefixed file is
\* the larger one; the two files of a listed pair have the same parent.
C22_PairsAndPrefixedLarger ==
    (fmt.op = "dups" /\ fmt.out.prefix_name = "hb")
    =>  /\ fmt.out.value # None
        /\ \E out \in {fmt.out.value[1]} :
              /\ out.pairs = PairsOf(fmt.scan[1], "hb")
              /\ out.prefixed_larger
                    = {pr \in PairsOf(fmt.scan[1], "hb") : files[pr[1]] > files[pr[2]]}
              /\ \A pr \in out.prefixed_larger : dirname(pr[1]) = dirname(pr[2])

\* a "{", then text that is not empty, then the first "}" after it
BraceGroups(template) ==
    {g \in {SubSeq(template, i, j) : i \in 1..Len(template), j \in 1..Len(template)} :
        /\ Len(g) >= 3
        /\ g[1] = "{" /\ g[Len(g)] = "}"
        /\ \A k \in 2..(Len(g) - 1) : g[k] # "}"}

\* C24: validate_template returns an empty list of issues exactly when the
\* template contains no illegal filename character, uses at least one of the
\* known placeholders and contains no {...} that is not a known placeholder;
\* a template with an illegal character, or without any placeholder, gets at
\* least one issue.
C24_TemplateIssues ==
    ren.op = "validate"
    =>  \E t \in {ren.template} :
            /\ (ren.issues = <<>>)
                <=> /\ \A i \in 1..Len(t) : \A c \in 1..Len(invalid_chars) : t[i] # invalid_chars[c]
                    /\ \E n \in 1..Len(valid_placeholders) : Contains(t, valid_placeholders[n])
                    /\ \A g \in BraceGroups(t) : IsValidPlaceholder(g)
            /\ (\E i \in 1..Len(t) : t[i] \in {"<", "/"}) => Len(ren.issues) >= 1
            /\ (\A i \in 1..Len(t) : t[i] # "{") => Len(ren.issues) >= 1

\* a template of a known placeholder and text is found to have no issue
C24_Witness ==
    /\ ren.op = "validate"
    /\ ren.issues = <<>>
    /\ Len(ren.template) >= 4
    /\ Contains(ren.template, "title")

\* C25: within one batch of either mode no move or copy writes to a path
\* that exists at the moment of the write, so no file is overwritten and the
\* destination paths of the successful outcomes of the batch are pairwise
\* distinct; also when the name with the timestamp exists already and when a
\* report lists the same source path more than once.
C25_NoOverwrite ==
    [][ (/\ pc \in {"scan", "report"}
         /\ Len(results') = Len(results) + 1
         /\ results'[Len(results')].success)
        =>  /\ Resolve(results'[Len(results')].target_path) \notin DOMAIN files
            /\ \A i \in 1..Len(results) :
                  results[i].success
                      => Resolve(results[i].target_path)
                             # Resolve(results'[Len(results')].target_path) ]_vars

\* C26: for every processed file: in copy mode the source file is still at
\* its path after the operation, whether it succeeded or failed; in move mode
\* a successful outcome means the source path is gone and the destination
\* exists; an outcome recorded as failed, in either mode, leaves the source
\* file at its path and creates no destination file.
C26_SourceAndDestination ==
    [][ (/\ pc \in {"scan", "report"}
         /\ Len(results') = Len(results) + 1)
        =>  \E r \in {results'[Len(results')]} :
              \E src \in {Resolve(r.source_path)} :
                /\ src \in DOMAIN files
                /\ ~is_move => (src \in DOMAIN files' /\ files'[src] = files[src])
                /\ (is_move /\ r.success)
                      => /\ src \notin DOMAIN files'
                         /\ Resolve(r.target_path) \in DOMAIN files'
                         /\ files'[Resolve(r.target_path)] = files[src]
                /\ ~r.success
                      => /\ src \in DOMAIN files' /\ files'[src] = files[src]
                         /\ DOMAIN files' = DOMAIN files ]_vars

\* C27: a classify_videos_by_bitrate run that ends without finding a video
\* file, also when the source directory does not exist and no target is
\* given, leaves the file system as it was: it creates no source directory,
\* no target directory, no logs directory, no log file and no report.
C27_EmptyRunChangesNothing ==
    [][ (calls' = calls + 1 /\ mode' = "A" /\ pc' = "idle")
        =>  /\ ret'.kind = "failure"
            /\ dirs' = dirs
            /\ files' = files
            /\ written' = written ]_vars

\* C28: in every report returned by either mode, total_files is the number
\* of entries of results, which is successful_operations + failed_operations
\* of its statistics; also for a replay in which records were skipped because
\* their file is gone.
C28_ReportTotals ==
    ret.kind = "report"
    =>  /\ ret.total_files = Len(ret.results)
        /\ Len(ret.results) = ret.stats.successful_operations + ret.stats.failed_operations

\* C30: rename_folders with dry_run = True changes nothing in the file
\* system (no rename, no copy, no directory created, with or without a
\* target base directory) and returns one record for every wallpaper given,
\* each with status 'planned' or 'error'.
C30_DryRunChangesNothing ==
    [][ (ren'.op = "rename" /\ ren.op = "none" /\ ren'.dry_run)
        =>  /\ dirs' = dirs
            /\ files' = files
            /\ Len(ren'.results) = Len(ren'.wallpapers)
            /\ \A i \in 1..Len(ren'.results) :
                  /\ ren'.results[i].status \in {"planned", "error"}
                  /\ ren'.results[i].workshop_id = ren'.wallpapers[i].workshop_id ]_vars

\* the entries of the list given that the running function has to rename
Eligible ==
    {i \in 1..Len(fmt.files_in) :
        EndsWith(basename(fmt.files_in[i]), ".nov") = ~fmt.add_nov}

\* C29: whatever the list given and the interleaving of the workers,
\* add_nov_extension_to_files and remove_nov_extension_from_files submit
\* every eligible entry of the list once and no other entry (no second .nov
\* for a file that has one, no stripping of a file without), run each
\* submitted call once, and return success_count + len(errors) equal to the
\* number of eligible entries, every result counted once.
C29_EveryResultCountedOnce ==
    fmt.op \in {"add_nov", "remove_nov"}
    =>  /\ Len(fmt.files_to_process) = Cardinality(Eligible)
        /\ \A k \in 1..Len(fmt.files_to_process) :
              /\ \E i \in Eligible : fmt.files_in[i] = fmt.files_to_process[k]
              /\ fmt.runs[k] <= 1
              /\ fmt.yielded[k] <= 1
        /\ \A i \in Eligible :
              Cardinality({k \in 1..Len(fmt.files_to_process) :
                              fmt.files_to_process[k] = fmt.files_in[i]})
                = Cardinality({j \in Eligible : fmt.files_in[j] = fmt.files_in[i]})
        /\ fmt.at = "returned"
              =>  /\ fmt.success_count + Len(fmt.error_files) = Cardinality(Eligible)
                  /\ \A k \in 1..Len(fmt.files_to_process) :
                        fmt.runs[k] = 1 /\ fmt.yielded[k] = 1 /\ fmt.task[k] = "done"
                  /\ fmt.success_count
                        = Cardinality({k \in 1..Len(fmt.files_to_process) : fmt.result[k]})

\* two workers raced for the same file: one renamed it, the other failed
C29_Witness ==
    /\ fmt.op = "add_nov" /\ fmt.at = "returned"
    /\ fmt.files_in = <<PoolClip, PoolClip>>
    /\ fmt.success_count = 1 /\ Len(fmt.error_files) = 1
    /\ fmt.result[1] = FALSE /\ fmt.result[2] = TRUE
    /\ PoolClipNov \in DOMAIN files /\ PoolClip \notin DOMAIN files

====
